---------------------------- MODULE Spec2Model ----------------------------
(***************************************************************************)
(* Model of Mopy/bash/brec/record_groups.py (Wrye Bash): the group         *)
(* containers MobBase, MobObjects, MobDials, MobCell, MobCells, MobICells, *)
(* MobWorld and MobWorlds, their size accounting, dump, index and merge    *)
(* operations.                                                             *)
(*                                                                         *)
(* Encoding conventions.                                                   *)
(*  - A FormID in long form is the pair <<master, object id>>.  An editor  *)
(*    id used as a key (id_records, mergeIds, keep sets) is the pair       *)
(*    <<eid, -1>>, so that FormIDs and editor ids can share one set.       *)
(*  - Python None is the record None.                                      *)
(*  - An output stream is a sequence of tokens: a packed group header, a   *)
(*    dumped record (its header and its data) or one raw payload byte.     *)
(*  - A Python exception ends the operation where it is raised; the        *)
(*    variable err then names it and the state keeps what the operation    *)
(*    had assigned until then.                                             *)
(***************************************************************************)
EXTENDS Integers, Sequences, FiniteSets, TLC

VARIABLES
    dest,       \* the container operated on (self)
    src,        \* the source container of the last merge (block), None before
    mergeIds,   \* the caller's set of merged ids
    op,         \* the last operation and its inputs
    err,        \* the exception the last operation raised, "" if none
    out         \* what the last dump wrote, what the last getSize returned

vars == <<dest, src, mergeIds, op, err, out>>

None == [none |-> TRUE]

\* Bounds of the model.
MaxDest == 2
MaxSrc == 2

--------------------------------------------------------------------------
(* Record collaborator (MreRecord): fid, eid, flags and the operations the *)
(* containers call.                                                        *)

masterName == "Oblivion.esm"
null_fid == <<masterName, 0>>
bad_form == <<"Oblivion.esm", 41757>>

EidKey(eid) == <<eid, -1>>

Rec(oid, fid, eid, keyed, ignored, size, refs, frefs) ==
    [oid |-> oid, fid |-> fid, eid |-> eid, isKeyedByEid |-> keyed,
     ignored |-> ignored, size |-> size, refs |-> refs, frefs |-> frefs,
     copy |-> FALSE]

\* record.mergeFilter(loadSet): drops the filterable references whose master
\* is not loaded.
mergeFilter(record, loadSet) ==
    [record EXCEPT !.frefs = @ \cap loadSet]

\* masters = MasterSet(); record.updateMasters(masters)
updateMasters(record) ==
    {record.fid[1]} \cup record.refs \cup record.frefs

\* record.getTypeCopy(): a new object with the same content.
getTypeCopy(record) ==
    [record EXCEPT !.copy = TRUE]

rec_header_size == 20

\* record.getSize(): the size of the record's data, its header excluded.
record_getSize(record) == record.size

\* Output tokens and their length in bytes.
RecToken(record) == [t |-> "REC", rec |-> record]
RawToken(b) == [t |-> "RAW", byte |-> b]
TokLen(tok) ==
    IF tok.t = "GRUP" THEN rec_header_size
    ELSE IF tok.t = "REC" THEN rec_header_size + record_getSize(tok.rec)
    ELSE 1

RECURSIVE SumSeq(_)
SumSeq(s) == IF s = << >> THEN 0 ELSE Head(s) + SumSeq(Tail(s))

StreamLen(stream) == SumSeq([i \in 1..Len(stream) |-> TokLen(stream[i])])

\* header.pack_head() of a GrupHeader / TopGrupHeader.
GrupHeader(size, label, groupType, stamp) ==
    [t |-> "GRUP", size |-> size, label |-> label, groupType |-> groupType,
     stamp |-> stamp]
TopGrupHeader(size, label, groupType, stamp) ==
    GrupHeader(size, label, groupType, stamp)

\* record.dump(out): the record's header and data.
record_dump(record) == << RecToken(record) >>

DumpAll(records) == [i \in 1..Len(records) |-> RecToken(records[i])]

--------------------------------------------------------------------------
(* MobBase: the fields every container has, the lazy load, and the size    *)
(* and dump of a container that was not unpacked.  The payload of a group  *)
(* region is the sequence of the tokens of its children.                   *)

\* MobBase.__init__ without ins.
MobBase_init(kind, header) ==
    [kind |-> kind, header |-> header, size |-> header.size,
     label |-> header.label, groupType |-> header.groupType,
     stamp |-> header.stamp, data |-> None, changed |-> FALSE,
     numRecords |-> -1]

\* ins.read(n): the first n bytes of the tokens of ins (whole tokens).
RECURSIVE ReadBytes(_, _)
ReadBytes(ins, n) ==
    IF ins = << >> \/ n < TokLen(Head(ins)) THEN << >>
    ELSE << Head(ins) >> \o ReadBytes(Tail(ins), n - TokLen(Head(ins)))

\* The raw payload a container holds in data.
RawData(payload) == [bytes |-> payload]

\* MobBase.load(ins, do_unpack=False): read, but don't analyze.
MobBase_load(c, ins) ==
    [c EXCEPT !.data = RawData(ReadBytes(ins, c.size - rec_header_size))]

\* MobBase.setChanged()
setChanged(c) == [c EXCEPT !.changed = TRUE]

\* MobBase.getSize: returns val and err.
MobBase_getSize(c) ==
    IF c.changed THEN [val |-> 0, err |-> "AbstractError"]
    ELSE [val |-> c.size, err |-> ""]

\* MobBase.getNumRecords: returns self (numRecords is cached), val and err.
\* The scan over raw data counts one per child header.
MobBase_getNumRecords(c) ==
    IF c.changed THEN [self |-> c, val |-> 0, err |-> "AbstractError"]
    ELSE IF c.numRecords > -1
    THEN [self |-> c, val |-> c.numRecords, err |-> ""]
    ELSE IF c.data = None \/ c.data.bytes = << >>
    THEN [self |-> [c EXCEPT !.numRecords = 0], val |-> 0, err |-> ""]
    ELSE [self |-> [c EXCEPT !.numRecords = Len(c.data.bytes) + 1],
          val |-> Len(c.data.bytes) + 1, err |-> ""]

\* MobBase.dump once numRecords is known.
MobBase_dump_counted(r) ==
    IF r.err # "" THEN [self |-> r.self, stream |-> << >>, err |-> r.err]
    ELSE IF r.self.numRecords > 0
    THEN [self |-> [r.self EXCEPT !.header.size = r.self.size],
          stream |-> << [r.self.header EXCEPT !.size = r.self.size] >>
                     \o r.self.data.bytes,
          err |-> ""]
    ELSE [self |-> r.self, stream |-> << >>, err |-> ""]

\* MobBase.dump: returns self, the tokens written and err.
MobBase_dump(c) ==
    IF c.changed THEN [self |-> c, stream |-> << >>, err |-> "AbstractError"]
    ELSE MobBase_dump_counted(
            IF c.numRecords = -1 THEN MobBase_getNumRecords(c)
            ELSE [self |-> c, val |-> c.numRecords, err |-> ""])

--------------------------------------------------------------------------
(* MobObjects *)

FidsOf(records) == {records[i].fid : i \in 1..Len(records)}

\* An empty dict.
EmptyIndex == [k \in {} |-> None]

\* A MobObjects group after __init__ and an eager load of `records`
\* (load_rec_group appends each record, load discards data and calls
\* setChanged).  header is the group header it was built from.
MobObjects(header, records) ==
    setChanged(MobBase_init("MobObjects", header))
    @@ [records |-> records, id_records |-> EmptyIndex]

\* The position of oldRecord in records (list.index), 0 if absent.
ListIndex(records, oldRecord) ==
    IF \E i \in 1..Len(records) : records[i] = oldRecord
    THEN CHOOSE i \in 1..Len(records) :
            /\ records[i] = oldRecord
            /\ \A j \in 1..(i - 1) : records[j] # oldRecord
    ELSE 0

getActiveRecords(g) ==
    SelectSeq(g.records, LAMBDA r : ~r.ignored)

\* id_records after the loop of indexRecords: a later record overwrites an
\* earlier one with the same fid.
IndexByFid(records) ==
    [k \in {records[i].fid : i \in 1..Len(records)} |->
        records[CHOOSE i \in 1..Len(records) :
                    /\ records[i].fid = k
                    /\ \A j \in (i + 1)..Len(records) : records[j].fid # k]]

indexRecords(g) ==
    [g EXCEPT !.id_records = IndexByFid(g.records)]

getRecord(g, fid) ==
    IF g.records = << >> THEN None
    ELSE LET g1 == IF DOMAIN g.id_records = {} THEN indexRecords(g) ELSE g
         IN  IF fid \in DOMAIN g1.id_records THEN g1.id_records[fid] ELSE None

\* The key setRecord files a record under.
record_id(record) ==
    IF record.isKeyedByEid /\ record.fid = null_fid
    THEN EidKey(record.eid)
    ELSE record.fid

Put(f, k, v) ==
    [x \in DOMAIN f \cup {k} |-> IF x = k THEN v ELSE f[x]]

\* Mutant of setRecord_indexed: the record is always appended.
setRecord_indexed_append(g, record, id) ==
    [g |-> [g EXCEPT !.records = Append(@, record),
                     !.id_records = Put(@, id, record)],
     err |-> ""]

\* setRecord once the index is there: replace the record filed under id at
\* its list position, or append.
setRecord_indexed(g, record, id) ==
    IF id \in DOMAIN g.id_records
    THEN IF ListIndex(g.records, g.id_records[id]) = 0
         THEN [g |-> g, err |-> "ValueError"]
         ELSE [g |-> [g EXCEPT
                       !.records[ListIndex(g.records, g.id_records[id])] = record,
                       !.id_records = Put(@, id, record)],
               err |-> ""]
    ELSE [g |-> [g EXCEPT !.records = Append(@, record),
                          !.id_records = Put(@, id, record)],
          err |-> ""]

\* setRecord returns the group and the exception raised ("" if none).
setRecord(g, record) ==
    setRecord_indexed(
        IF g.records # << >> /\ DOMAIN g.id_records = {}
        THEN indexRecords(g) ELSE g,
        record, record_id(record))

Keeps(record, p_keep_ids) ==
    \/ /\ record.isKeyedByEid
       /\ record.fid = <<masterName, 0>>
       /\ EidKey(record.eid) \in p_keep_ids
    \/ record.fid \in p_keep_ids

keepRecords(g, p_keep_ids) ==
    [g EXCEPT !.records = SelectSeq(@, LAMBDA r : Keeps(r, p_keep_ids)),
              !.id_records = EmptyIndex,
              !.changed = TRUE]

MobObjects_getSize(g) ==
    IF ~g.changed THEN g.size
    ELSE rec_header_size
         + SumSeq([i \in 1..Len(g.records) |->
                     rec_header_size + record_getSize(g.records[i])])

\* MobObjects.dump: the tokens written to out.
MobObjects_dump(g) ==
    IF ~g.changed
    THEN << TopGrupHeader(g.size, g.label, 0, g.stamp) >> \o g.data.bytes
    ELSE LET size == MobObjects_getSize(g)
         IN  IF size = rec_header_size THEN << >>
             ELSE << TopGrupHeader(size, g.label, 0, g.stamp) >>
                  \o DumpAll(g.records)

\* Mutant of merge_object_keep: the record is recorded and copied in IIM
\* as well.
merge_object_keep_iim(st, record, a, set) ==
    [st EXCEPT !.filtered = Append(@, record),
               !.mergeIds = @ \cup {record.fid},
               !.self = set.g,
               !.err = set.err]

\* The tail of one pass of the loop of MobObjects.merge_records, for a
\* record that is kept: filteredAppend, then (unless iiSkipMerge) mergeIdsAdd
\* and copy_to_self.
merge_object_keep(st, record, a, set) ==
    IF a.iiSkipMerge THEN [st EXCEPT !.filtered = Append(@, record)]
    ELSE [st EXCEPT !.filtered = Append(@, record),
                    !.mergeIds = @ \cup {IF record.isKeyedByEid
                                            /\ record.fid = null_fid
                                         THEN EidKey(record.eid)
                                         ELSE record.fid},
                    !.self = set.g,
                    !.err = set.err]

\* One pass of the loop of MobObjects.merge_records over block.records[i]
\* (getActiveRecords skips the ignored ones); record is block.records[i]
\* after mergeFilter, which changes it in place.  st holds self, block,
\* filtered, mergeIds and err.
merge_object_filtered(st, i, record, a) ==
    IF a.doFilter /\ ~(updateMasters(record) \subseteq a.loadSet)
    THEN [st EXCEPT !.block.records[i] = record]
    ELSE merge_object_keep([st EXCEPT !.block.records[i] = record], record, a,
                           setRecord(st.self, getTypeCopy(record)))

merge_object(st, i, a) ==
    IF st.block.records[i].ignored \/ st.block.records[i].fid = bad_form
    THEN st
    ELSE merge_object_filtered(st, i,
            IF a.doFilter
            THEN mergeFilter(st.block.records[i], a.loadSet)
            ELSE st.block.records[i], a)

RECURSIVE merge_objects_loop(_, _, _)
merge_objects_loop(st, i, a) ==
    IF i > Len(st.block.records) \/ st.err # "" THEN st
    ELSE merge_objects_loop(merge_object(st, i, a), i + 1, a)

\* Mutant of merge_objects_finish: the source's list is indexed but not
\* replaced by the filtered one.
merge_objects_finish_unfiltered(st) ==
    [self |-> st.self,
     block |-> IF st.err # "" THEN st.block ELSE indexRecords(st.block),
     mergeIds |-> st.mergeIds, err |-> st.err]

\* The end of merge_records: block.records = filtered; block.indexRecords().
merge_objects_finish(st) ==
    IF st.err # ""
    THEN [self |-> st.self, block |-> st.block,
          mergeIds |-> st.mergeIds, err |-> st.err]
    ELSE [self |-> st.self,
          block |-> indexRecords([st.block EXCEPT !.records = st.filtered]),
          mergeIds |-> st.mergeIds, err |-> ""]

\* MobObjects.merge_records: returns self, block, mergeIds and err.
MobObjects_merge_records(self, block, loadSet, mergeIds0, iiSkipMerge, doFilter) ==
    merge_objects_finish(
        merge_objects_loop(
            [self |-> self, block |-> block, filtered |-> << >>,
             mergeIds |-> mergeIds0, err |-> ""], 1,
            [loadSet |-> loadSet, iiSkipMerge |-> iiSkipMerge,
             doFilter |-> doFilter]))

--------------------------------------------------------------------------
(* MobCell.getBsb.  A cell's posX / posY is None or an integer: the empty  *)
(* sequence or <<n>>.  An interior cell's fid is in short (integer) form.  *)

CellAttrs(fid, isInterior, posX, posY) ==
    [fid |-> fid, isInterior |-> isInterior, posX |-> posX, posY |-> posY]

\* `if x is None: x = 0`
OrZero(p) == IF p = << >> THEN 0 ELSE p[1]

\* Mutant of getBsb_exterior: x and y taken as posX and posY.
getBsb_exterior_xy(posX, posY) ==
    << <<OrZero(posX) \div 32, OrZero(posY) \div 32>>,
       <<OrZero(posX) \div 8, OrZero(posY) \div 8>> >>

\* The exterior branch: x, y = cell.posY, cell.posX.
getBsb_exterior(posX, posY) ==
    << <<OrZero(posY) \div 32, OrZero(posX) \div 32>>,
       <<OrZero(posY) \div 8, OrZero(posX) \div 8>> >>

\* fid & 0x00FFFFFF
baseFid(fid) == fid % 16777216

getBsb(cell) ==
    IF cell.isInterior
    THEN <<baseFid(cell.fid) % 10, (baseFid(cell.fid) % 100) \div 10>>
    ELSE getBsb_exterior(cell.posX, cell.posY)

--------------------------------------------------------------------------
(* MobCell: a cell record, its persistent / temp / distant references and  *)
(* at most one land and one pathgrid record.                               *)

\* A MobCell after __init__ and an eager load (setChanged).
MobCell(header, cell, persistent, temp, distant, land, pgrd) ==
    setChanged(MobBase_init("MobCell", header))
    @@ [cell |-> cell, persistent |-> persistent, temp |-> temp,
        distant |-> distant, land |-> land, pgrd |-> pgrd]

SumSizes(records) ==
    SumSeq([i \in 1..Len(records) |->
              rec_header_size + record_getSize(records[i])])

\* Mutant of PlusHeader: the header is counted for an empty group too.
PlusHeader_always(size) == size + rec_header_size

\* `size + hsize * bool(size)`
PlusHeader(size) == IF size # 0 THEN size + rec_header_size ELSE 0

getPersistentSize(cb) == PlusHeader(SumSizes(cb.persistent))

getTempSize(cb) ==
    PlusHeader(SumSizes(cb.temp)
               + (IF cb.pgrd # None
                  THEN rec_header_size + record_getSize(cb.pgrd) ELSE 0)
               + (IF cb.land # None
                  THEN rec_header_size + record_getSize(cb.land) ELSE 0))

getDistantSize(cb) == PlusHeader(SumSizes(cb.distant))

getChildrenSize(cb) ==
    PlusHeader(getPersistentSize(cb) + getTempSize(cb) + getDistantSize(cb))

\* MobCell.getSize (cb.cell is a record).
MobCell_getSize(cb) ==
    rec_header_size + record_getSize(cb.cell) + getChildrenSize(cb)

\* _write_group_header
MobCell_group_header(cb, group_size, group_type) ==
    << GrupHeader(group_size, cb.cell.fid, group_type, cb.stamp) >>

MobCell_dump_persistent(cb) ==
    IF cb.persistent # << >>
    THEN MobCell_group_header(cb, getPersistentSize(cb), 8)
         \o DumpAll(cb.persistent)
    ELSE << >>

MobCell_dump_temp(cb) ==
    IF cb.temp # << >> \/ cb.pgrd # None \/ cb.land # None
    THEN MobCell_group_header(cb, getTempSize(cb), 9)
         \o (IF cb.pgrd # None THEN record_dump(cb.pgrd) ELSE << >>)
         \o (IF cb.land # None THEN record_dump(cb.land) ELSE << >>)
         \o DumpAll(cb.temp)
    ELSE << >>

MobCell_dump_distant(cb) ==
    IF cb.distant # << >>
    THEN MobCell_group_header(cb, getDistantSize(cb), 10)
         \o DumpAll(cb.distant)
    ELSE << >>

\* MobCell.dump: the tokens written to out (cb.cell is a record).
MobCell_dump(cb) ==
    record_dump(cb.cell)
    \o (IF getChildrenSize(cb) = 0 THEN << >>
        ELSE MobCell_group_header(cb, getChildrenSize(cb), 6)
             \o MobCell_dump_persistent(cb)
             \o MobCell_dump_temp(cb)
             \o MobCell_dump_distant(cb))

KeepList(records, p_keep_ids) ==
    SelectSeq(records, LAMBDA x : x.fid \in p_keep_ids)

KeepOne(record, p_keep_ids) ==
    IF record # None /\ record.fid \notin p_keep_ids THEN None ELSE record

\* The children of a cell block after the assignments of keepRecords.
keepRecords_children(cb, p_keep_ids) ==
    [cb EXCEPT !.pgrd = KeepOne(@, p_keep_ids),
               !.land = KeepOne(@, p_keep_ids),
               !.temp = KeepList(@, p_keep_ids),
               !.persistent = KeepList(@, p_keep_ids),
               !.distant = KeepList(@, p_keep_ids)]

HasChildren(cb) ==
    \/ cb.pgrd # None \/ cb.land # None
    \/ cb.persistent # << >> \/ cb.temp # << >> \/ cb.distant # << >>

\* Mutant of keepRecords_pin: the cell's FormID is never added.
keepRecords_pin_never(kept, p_keep_ids) ==
    [self |-> [kept EXCEPT !.changed = TRUE],
     p_keep_ids |-> p_keep_ids, err |-> ""]

\* keepRecords once the children are filtered: p_keep_ids.add(self.cell.fid)
\* if a child is left (AttributeError when the block has no cell), then
\* setChanged.
keepRecords_pin(kept, p_keep_ids) ==
    IF HasChildren(kept)
    THEN IF kept.cell = None
         THEN [self |-> kept, p_keep_ids |-> p_keep_ids,
               err |-> "AttributeError"]
         ELSE [self |-> [kept EXCEPT !.changed = TRUE],
               p_keep_ids |-> p_keep_ids \cup {kept.cell.fid}, err |-> ""]
    ELSE [self |-> [kept EXCEPT !.changed = TRUE],
          p_keep_ids |-> p_keep_ids, err |-> ""]

\* MobCell.keepRecords: returns self, the keep set and err.
MobCell_keepRecords(cb, p_keep_ids) ==
    keepRecords_pin(keepRecords_children(cb, p_keep_ids), p_keep_ids)

RECURSIVE UnionSeq(_)
UnionSeq(s) == IF s = << >> THEN {} ELSE Head(s) \cup UnionSeq(Tail(s))

MastersOfList(records) ==
    UnionSeq([i \in 1..Len(records) |-> updateMasters(records[i])])

MastersOfOne(record) ==
    IF record # None THEN updateMasters(record) ELSE {}

\* MobCell.updateMasters into a new MasterSet: the masters and err
\* (self.cell.updateMasters raises AttributeError when cell is None).
MobCell_updateMasters(cb) ==
    IF cb.cell = None THEN [masters |-> {}, err |-> "AttributeError"]
    ELSE [masters |-> updateMasters(cb.cell)
                      \cup MastersOfList(cb.persistent)
                      \cup MastersOfList(cb.distant)
                      \cup MastersOfList(cb.temp)
                      \cup MastersOfOne(cb.land)
                      \cup MastersOfOne(cb.pgrd),
          err |-> ""]

\* One pass of the first loop of MobCell.merge_records (cell, pgrd, land)
\* once the source record src_rec has been merge-filtered in place.
\* st holds self, block, mergeIds and err.
merge_single_filtered(st, attr, src_rec, a) ==
    IF a.doFilter /\ ~(updateMasters(src_rec) \subseteq a.loadSet)
    THEN [st EXCEPT !.block[attr] = None]
    ELSE IF a.iiSkipMerge
    THEN [st EXCEPT !.block[attr] = src_rec]
    ELSE IF st.self[attr] # None /\ st.self[attr].fid # src_rec.fid
    THEN [st EXCEPT !.block[attr] = src_rec, !.err = "ArgumentError"]
    ELSE [st EXCEPT !.block[attr] = src_rec,
                    !.mergeIds = @ \cup {src_rec.fid},
                    !.self[attr] = getTypeCopy(src_rec)]

merge_single(st, attr, a) ==
    IF st.err # "" THEN st
    ELSE IF st.block[attr] = None THEN st
    ELSE IF st.block[attr].ignored THEN st
    ELSE merge_single_filtered(st, attr,
            IF a.doFilter THEN mergeFilter(st.block[attr], a.loadSet)
            ELSE st.block[attr], a)

\* id_fids = {record.fid: i for i, record in enumerate(dest_list)}
id_fids_of(dest_list) ==
    [k \in FidsOf(dest_list) |->
        CHOOSE i \in 1..Len(dest_list) :
            /\ dest_list[i].fid = k
            /\ \A j \in (i + 1)..Len(dest_list) : dest_list[j].fid # k]

\* Mutant of merge_list_filtered: append-only, a destination entry with the
\* source record's FormID is left in place.
merge_list_filtered_append(ls, src_rec, id_fids, a) ==
    IF a.doFilter /\ ~(updateMasters(src_rec) \subseteq a.loadSet) THEN ls
    ELSE IF a.iiSkipMerge
    THEN [ls EXCEPT !.filtered_list = Append(@, src_rec)]
    ELSE [ls EXCEPT !.filtered_list = Append(@, src_rec),
                    !.mergeIds = @ \cup {src_rec.fid},
                    !.dest_list = Append(@, getTypeCopy(src_rec))]

\* One pass of the loop over a source list, for the merge-filtered src_rec.
\* ls holds dest_list, filtered_list and mergeIds.
merge_list_filtered(ls, src_rec, id_fids, a) ==
    IF a.doFilter /\ ~(updateMasters(src_rec) \subseteq a.loadSet) THEN ls
    ELSE IF a.iiSkipMerge
    THEN [ls EXCEPT !.filtered_list = Append(@, src_rec)]
    ELSE IF src_rec.fid \in DOMAIN id_fids
    THEN [ls EXCEPT !.filtered_list = Append(@, src_rec),
                    !.mergeIds = @ \cup {src_rec.fid},
                    !.dest_list[id_fids[src_rec.fid]] = getTypeCopy(src_rec)]
    ELSE [ls EXCEPT !.filtered_list = Append(@, src_rec),
                    !.mergeIds = @ \cup {src_rec.fid},
                    !.dest_list = Append(@, getTypeCopy(src_rec))]

RECURSIVE merge_list_loop(_, _, _, _, _)
merge_list_loop(ls, src_list, i, id_fids, a) ==
    IF i > Len(src_list) THEN ls
    ELSE IF src_list[i].ignored
    THEN merge_list_loop(ls, src_list, i + 1, id_fids, a)
    ELSE merge_list_loop(
            merge_list_filtered(ls,
                IF a.doFilter THEN mergeFilter(src_list[i], a.loadSet)
                ELSE src_list[i], id_fids, a),
            src_list, i + 1, id_fids, a)

merge_list_store(st, attr, ls) ==
    [st EXCEPT !.self[attr] = ls.dest_list,
               !.block[attr] = ls.filtered_list,
               !.mergeIds = ls.mergeIds]

\* One pass of the second loop of MobCell.merge_records (temp, persistent,
\* distant).
merge_list(st, attr, a) ==
    IF st.err # "" THEN st
    ELSE merge_list_store(st, attr,
            merge_list_loop([dest_list |-> st.self[attr],
                             filtered_list |-> << >>,
                             mergeIds |-> st.mergeIds],
                            st.block[attr], 1, id_fids_of(st.self[attr]), a))

\* MobCell.merge_records on the state st (self, block, mergeIds, err).
MobCell_merge(st, a) ==
    merge_list(
      merge_list(
        merge_list(
          merge_single(
            merge_single(
              merge_single(st, "cell", a),
              "pgrd", a),
            "land", a),
          "temp", a),
        "persistent", a),
      "distant", a)

MergeArgs(loadSet, iiSkipMerge, doFilter) ==
    [loadSet |-> loadSet, iiSkipMerge |-> iiSkipMerge, doFilter |-> doFilter]

\* MobCell.merge_records: returns self, block, mergeIds and err.
MobCell_merge_records(self, block, loadSet, mergeIds0, iiSkipMerge, doFilter) ==
    MobCell_merge([self |-> self, block |-> block, mergeIds |-> mergeIds0,
                   err |-> ""],
                  MergeArgs(loadSet, iiSkipMerge, doFilter))

--------------------------------------------------------------------------
(* MobCells and MobICells: a list of cell blocks and the index             *)
(* id_cellBlock, which maps a cell's FormID to a cell block of the list    *)
(* (here: to its position in cellBlocks).                                  *)

\* The plugin's masters in load order; a FormID's short form is the index
\* of its master (from 0) in the top byte and the object id below.
MasterOrder == <<"Oblivion.esm", "A.esp", "X.esp">>
ShortFid(fid) ==
    16777216 * ((CHOOSE i \in 1..Len(MasterOrder) : MasterOrder[i] = fid[1]) - 1)
    + fid[2]

\* A MobCells / MobICells after __init__ and an eager load.
MobCells(kind, header, cellBlocks) ==
    setChanged(MobBase_init(kind, header))
    @@ [cellBlocks |-> cellBlocks, id_cellBlock |-> EmptyIndex]

\* dict((x.cell.fid, x) for x in self.cellBlocks); AttributeError when a
\* block has no cell.
MobCells_indexRecords(c) ==
    IF \E i \in 1..Len(c.cellBlocks) : c.cellBlocks[i].cell = None
    THEN [self |-> c, err |-> "AttributeError"]
    ELSE [self |-> [c EXCEPT !.id_cellBlock =
                      [k \in {c.cellBlocks[i].cell.fid :
                                 i \in 1..Len(c.cellBlocks)} |->
                         CHOOSE i \in 1..Len(c.cellBlocks) :
                            /\ c.cellBlocks[i].cell.fid = k
                            /\ \A j \in (i + 1)..Len(c.cellBlocks) :
                                  c.cellBlocks[j].cell.fid # k]],
          err |-> ""]

\* `if self.cellBlocks and not self.id_cellBlock: self.indexRecords()`
MobCells_ensure_index(c) ==
    IF c.cellBlocks # << >> /\ DOMAIN c.id_cellBlock = {}
    THEN MobCells_indexRecords(c)
    ELSE [self |-> c, err |-> ""]

\* setCell once the index is there.
setCell_indexed(r, cell) ==
    IF r.err # "" THEN r
    ELSE IF cell.fid \in DOMAIN r.self.id_cellBlock
    THEN [r EXCEPT !.self.cellBlocks[r.self.id_cellBlock[cell.fid]].cell = cell]
    ELSE [r EXCEPT
            !.self.cellBlocks =
                Append(@, MobCell(GrupHeader(0, 0, 6, r.self.stamp), cell,
                                  << >>, << >>, << >>, None, None)),
            !.self.id_cellBlock =
                Put(@, cell.fid, Len(r.self.cellBlocks) + 1)]

\* MobCells.setCell: returns self and err.
setCell(c, cell) == setCell_indexed(MobCells_ensure_index(c), cell)

RemoveAt(s, i) == SubSeq(s, 1, i - 1) \o SubSeq(s, i + 1, Len(s))

\* remove_cell once the index is there: self.cellBlocks.remove(cell) raises
\* ValueError unless an element of cellBlocks equals cell.
remove_cell_indexed(r, cell) ==
    IF r.err # "" THEN r
    ELSE IF ListIndex(r.self.cellBlocks, cell) = 0
    THEN [r EXCEPT !.err = "ValueError"]
    ELSE [r EXCEPT
            !.self.cellBlocks = RemoveAt(@, ListIndex(r.self.cellBlocks, cell)),
            !.self.id_cellBlock =
                [k \in DOMAIN @ \ {cell.fid} |->
                    IF @[k] > ListIndex(r.self.cellBlocks, cell)
                    THEN @[k] - 1 ELSE @[k]]]

\* MobCells.remove_cell: returns self and err.
remove_cell(c, cell) == remove_cell_indexed(MobCells_ensure_index(c), cell)

\* The cell object a newly added destination block shares with the source
\* block: MobCell.merge_records merge-filters it in place before anything
\* else reads it.
SharedCell(cell, a) ==
    IF a.doFilter /\ ~cell.ignored THEN mergeFilter(cell, a.loadSet) ELSE cell

\* The end of one pass of the loop of MobCells.merge_records, after the
\* child's merge_records, when the source block is not kept: the newly
\* added destination block is removed again.
merge_cells_drop(st, pos, was_newly_added) ==
    IF was_newly_added
    THEN [st EXCEPT
            !.self = remove_cell(st.self, st.self.cellBlocks[pos].cell).self,
            !.err = remove_cell(st.self, st.self.cellBlocks[pos].cell).err]
    ELSE st

\* ... after the child's merge_records: IIM, the merge filter, or keep.
merge_cells_after(st, i, pos, was_newly_added, a) ==
    IF st.err # "" THEN st
    ELSE IF a.iiSkipMerge THEN merge_cells_drop(st, pos, was_newly_added)
    ELSE IF a.doFilter /\ MobCell_updateMasters(st.block.cellBlocks[i]).err # ""
    THEN [st EXCEPT !.err = MobCell_updateMasters(st.block.cellBlocks[i]).err]
    ELSE IF a.doFilter
            /\ ~(MobCell_updateMasters(st.block.cellBlocks[i]).masters
                    \subseteq a.loadSet)
    THEN merge_cells_drop(st, pos, was_newly_added)
    ELSE [st EXCEPT !.filtered = Append(@, st.block.cellBlocks[i])]

\* The child's merge_records, stored back into both lists.
merge_cells_child(st, i, pos, m) ==
    [st EXCEPT !.self.cellBlocks[pos] = m.self,
               !.block.cellBlocks[i] = m.block,
               !.mergeIds = m.mergeIds,
               !.err = m.err]

\* One pass with the destination block at position pos of self.cellBlocks.
merge_cells_at(st, i, pos, was_newly_added, a) ==
    IF st.err # "" THEN st
    ELSE merge_cells_after(
            merge_cells_child(st, i, pos,
                MobCell_merge([self |-> st.self.cellBlocks[pos],
                               block |-> st.block.cellBlocks[i],
                               mergeIds |-> st.mergeIds, err |-> ""], a)),
            i, pos, was_newly_added, a)

\* One pass when the destination has no cell with src_fid: setCell first.
merge_cells_add(st, i, set, a) ==
    merge_cells_at([st EXCEPT !.self = set.self, !.err = set.err],
                   i, Len(set.self.cellBlocks), TRUE, a)

\* One pass of the loop of MobCells.merge_records.
merge_cells_step(st, i, a) ==
    IF st.block.cellBlocks[i].cell = None
    THEN [st EXCEPT !.err = "AttributeError"]
    ELSE IF st.block.cellBlocks[i].cell.fid \in DOMAIN st.self.id_cellBlock
    THEN merge_cells_at(st, i,
            st.self.id_cellBlock[st.block.cellBlocks[i].cell.fid], FALSE, a)
    ELSE merge_cells_add(st, i,
            setCell(st.self, SharedCell(st.block.cellBlocks[i].cell, a)), a)

RECURSIVE merge_cells_loop(_, _, _)
merge_cells_loop(st, i, a) ==
    IF i > Len(st.block.cellBlocks) \/ st.err # "" THEN st
    ELSE merge_cells_loop(merge_cells_step(st, i, a), i + 1, a)

\* block.cellBlocks = filtered_cell_blocks; block.indexRecords()
merge_cells_finish(st) ==
    IF st.err # "" THEN [self |-> st.self, block |-> st.block,
                         mergeIds |-> st.mergeIds, err |-> st.err]
    ELSE [self |-> st.self,
          block |-> MobCells_indexRecords(
                        [st.block EXCEPT !.cellBlocks = st.filtered]).self,
          mergeIds |-> st.mergeIds,
          err |-> MobCells_indexRecords(
                        [st.block EXCEPT !.cellBlocks = st.filtered]).err]

\* MobCells.merge_records on self, block, mergeIds: the index is built first.
MobCells_merge(self, block, mergeIds0, a) ==
    merge_cells_finish(
        merge_cells_loop([self |-> MobCells_ensure_index(self).self,
                          block |-> block, filtered |-> << >>,
                          mergeIds |-> mergeIds0,
                          err |-> MobCells_ensure_index(self).err], 1, a))

\* MobCells.merge_records: returns self, block, mergeIds and err.
MobCells_merge_records(self, block, loadSet, mergeIds0, iiSkipMerge, doFilter) ==
    MobCells_merge(self, block, mergeIds0,
                   MergeArgs(loadSet, iiSkipMerge, doFilter))

RECURSIVE keep_cells_loop(_, _, _)
\* `for cellBlock in self.cellBlocks: cellBlock.keepRecords(p_keep_ids)`;
\* st holds self, p_keep_ids and err.
keep_cells_loop(st, i, k) ==
    IF i > Len(st.self.cellBlocks) \/ st.err # "" THEN st
    ELSE keep_cells_loop(
            [st EXCEPT !.self.cellBlocks[i] = k.self,
                       !.p_keep_ids = k.p_keep_ids,
                       !.err = k.err],
            i + 1,
            IF i + 1 > Len(st.self.cellBlocks) \/ k.err # "" THEN k
            ELSE MobCell_keepRecords(st.self.cellBlocks[i + 1], k.p_keep_ids))

keep_cells_finish(st) ==
    IF st.err # "" THEN st
    ELSE [st EXCEPT
            !.self.cellBlocks =
                SelectSeq(@, LAMBDA x : x.cell.fid \in st.p_keep_ids),
            !.self.id_cellBlock = EmptyIndex,
            !.self.changed = TRUE]

\* MobCells.keepRecords: returns self, the keep set and err.
MobCells_keepRecords(c, p_keep_ids) ==
    keep_cells_finish(
        IF c.cellBlocks = << >>
        THEN [self |-> c, p_keep_ids |-> p_keep_ids, err |-> ""]
        ELSE keep_cells_loop(
                [self |-> c, p_keep_ids |-> p_keep_ids, err |-> ""], 1,
                MobCell_keepRecords(c.cellBlocks[1], p_keep_ids)))

\* A CELL record: a record with the interior flag and the grid position.
CellRec(rec, isInterior, posX, posY) ==
    rec @@ [isInterior |-> isInterior, posX |-> posX, posY |-> posY]

\* cellBlock.getBsb() at dump time, when FormIDs are in short form.
MobCell_getBsb(cb) ==
    getBsb(CellAttrs(ShortFid(cb.cell.fid), cb.cell.isInterior,
                     cb.cell.posX, cb.cell.posY))

\* Python's order on tuples of integers.
RECURSIVE LexLess(_, _)
LexLess(s, t) ==
    IF t = << >> THEN FALSE
    ELSE IF s = << >> THEN TRUE
    ELSE IF Head(s) # Head(t) THEN Head(s) < Head(t)
    ELSE LexLess(Tail(s), Tail(t))

\* A bsb as one tuple of integers (tuples compare element by element).
BsbFlat(cb) ==
    IF cb.cell.isInterior THEN MobCell_getBsb(cb)
    ELSE MobCell_getBsb(cb)[1] \o MobCell_getBsb(cb)[2]

\* list.sort(key=...) is stable: x goes behind every element whose key is
\* not greater.  pairs are <<key, cell block>>.
StableInsert(sorted, p) ==
    SubSeq(sorted, 1,
           Cardinality({i \in 1..Len(sorted) : ~LexLess(p[1], sorted[i][1])}))
    \o << p >>
    \o SubSeq(sorted,
              Cardinality({i \in 1..Len(sorted) : ~LexLess(p[1], sorted[i][1])}) + 1,
              Len(sorted))

RECURSIVE StableSort(_, _)
StableSort(acc, pairs) ==
    IF pairs = << >> THEN acc
    ELSE StableSort(StableInsert(acc, Head(pairs)), Tail(pairs))

\* bsbCellBlocks of getBsbSizes: sorted by the cell's fid, then by bsb.
bsbCellBlocks(cellBlocks) ==
    StableSort(<< >>,
        [i \in 1..Len(cellBlocks) |->
            << BsbFlat(StableSort(<< >>,
                    [j \in 1..Len(cellBlocks) |->
                        << << ShortFid(cellBlocks[j].cell.fid) >>,
                           cellBlocks[j] >>])[i][2]),
               StableSort(<< >>,
                    [j \in 1..Len(cellBlocks) |->
                        << << ShortFid(cellBlocks[j].cell.fid) >>,
                           cellBlocks[j] >>])[i][2] >>])

\* The keys of bsb_size: (block, None) and (block, subblock).
Bsb0Key(cb) == << MobCell_getBsb(cb)[1], << >> >>
BsbKey(cb) == << MobCell_getBsb(cb)[1], << MobCell_getBsb(cb)[2] >> >>

\* dict.setdefault(k, v): the dict afterwards.
SetDefault(f, k, v) == IF k \in DOMAIN f THEN f ELSE Put(f, k, v)

\* Mutant of bsb_size_subheader: the header of a new sub-block is not added
\* to the size of its block.
bsb_size_subheader_uncounted(d, cb) ==
    SetDefault(d, BsbKey(cb), rec_header_size)

\* `if bsb_setDefault(bsb, hsize) == hsize: bsb_size[bsb0] += hsize`, on
\* the dict d after bsb_setDefault(bsb0, hsize).
bsb_size_subheader(d, cb) ==
    IF SetDefault(d, BsbKey(cb), rec_header_size)[BsbKey(cb)] = rec_header_size
    THEN [SetDefault(d, BsbKey(cb), rec_header_size)
            EXCEPT ![Bsb0Key(cb)] = @ + rec_header_size]
    ELSE SetDefault(d, BsbKey(cb), rec_header_size)

\* One pass of the loop of getBsbSizes over the dict bsb_size.
bsb_size_step(d, cb) ==
    [[bsb_size_subheader(SetDefault(d, Bsb0Key(cb), rec_header_size), cb)
        EXCEPT ![BsbKey(cb)] = @ + MobCell_getSize(cb)]
        EXCEPT ![Bsb0Key(cb)] = @ + MobCell_getSize(cb)]

RECURSIVE bsb_size_loop(_, _, _)
bsb_size_loop(d, blocks, i) ==
    IF i > Len(blocks) THEN d
    ELSE bsb_size_loop(bsb_size_step(d, blocks[i][2]), blocks, i + 1)

\* getBsbSizes for the sorted blocks and their dict.
getBsbSizes_of(blocks, bsb_size) ==
    [totalSize |-> rec_header_size
                   + SumSeq([i \in 1..Len(blocks) |->
                                MobCell_getSize(blocks[i][2])])
                   + rec_header_size * Cardinality(DOMAIN bsb_size),
     bsb_size |-> bsb_size,
     blocks |-> blocks]

\* MobCells.getBsbSizes: totalSize, bsb_size and the sorted blocks.
getBsbSizes(c) ==
    getBsbSizes_of(bsbCellBlocks(c.cellBlocks),
                   bsb_size_loop(EmptyIndex, bsbCellBlocks(c.cellBlocks), 1))

\* MobCells.dumpBlocks from position i on; curBlock and curSubblock are
\* << >> for None, else the one-element tuple of the label.
RECURSIVE dumpBlocks_loop(_, _, _, _, _, _, _)
dumpBlocks_loop(stamp, bs, i, curBlock, curSubblock, blockGroupType, subBlockGroupType) ==
    IF i > Len(bs.blocks) THEN << >>
    ELSE (IF << MobCell_getBsb(bs.blocks[i][2])[1] >> # curBlock
          THEN << GrupHeader(bs.bsb_size[Bsb0Key(bs.blocks[i][2])],
                             MobCell_getBsb(bs.blocks[i][2])[1],
                             blockGroupType, stamp) >>
          ELSE << >>)
         \o (IF << MobCell_getBsb(bs.blocks[i][2])[2] >>
                  # (IF << MobCell_getBsb(bs.blocks[i][2])[1] >> # curBlock
                     THEN << >> ELSE curSubblock)
              THEN << GrupHeader(bs.bsb_size[BsbKey(bs.blocks[i][2])],
                                 MobCell_getBsb(bs.blocks[i][2])[2],
                                 subBlockGroupType, stamp) >>
              ELSE << >>)
         \o MobCell_dump(bs.blocks[i][2])
         \o dumpBlocks_loop(stamp, bs, i + 1,
                            << MobCell_getBsb(bs.blocks[i][2])[1] >>,
                            << MobCell_getBsb(bs.blocks[i][2])[2] >>,
                            blockGroupType, subBlockGroupType)

dumpBlocks(c, bs, blockGroupType, subBlockGroupType) ==
    dumpBlocks_loop(c.stamp, bs, 1, << >>, << >>, blockGroupType,
                    subBlockGroupType)

\* MobICells.dump of a changed container with cell blocks.
MobICells_dump_changed(c, bs) ==
    [self |-> [c EXCEPT !.header.size = bs.totalSize],
     stream |-> << [c.header EXCEPT !.size = bs.totalSize] >>
                \o dumpBlocks(c, bs, 2, 3),
     err |-> ""]

\* MobICells.dump: returns self, the tokens written and err.
MobICells_dump(c) ==
    IF ~c.changed /\ c.data = None
    THEN [self |-> c, stream |-> << c.header >>, err |-> "TypeError"]
    ELSE IF ~c.changed
    THEN [self |-> c, stream |-> << c.header >> \o c.data.bytes, err |-> ""]
    ELSE IF c.cellBlocks # << >>
    THEN MobICells_dump_changed(c, getBsbSizes(c))
    ELSE [self |-> c, stream |-> << >>, err |-> ""]

--------------------------------------------------------------------------
(* MobWorld: a world record, an optional road, an optional world cell      *)
(* block and the exterior cell blocks of MobCells.                         *)

\* A MobWorld after __init__ and an eager load.
MobWorld(header, world, road, worldCellBlock, cellBlocks) ==
    MobCells("MobWorld", header, cellBlocks)
    @@ [world |-> world, road |-> road, worldCellBlock |-> worldCellBlock]

\* MobWorld inherits MobBase.getSize.
MobWorld_getSize(w) == MobBase_getSize(w)

\* The changed branch of MobWorld.dump with something to write; totalSize
\* is what getBsbSizes returned plus the road and the world cell block.
MobWorld_dump_children(w, bs, totalSize) ==
    [self |-> [w EXCEPT !.header.size = totalSize,
                        !.header.label = w.world.fid,
                        !.header.groupType = 1],
     stream |-> record_dump(w.world)
                \o << [w.header EXCEPT !.size = totalSize,
                                       !.label = w.world.fid,
                                       !.groupType = 1] >>
                \o (IF w.road # None THEN record_dump(w.road) ELSE << >>)
                \o (IF w.worldCellBlock # None
                    THEN MobCell_dump(w.worldCellBlock) ELSE << >>)
                \o dumpBlocks(w, bs, 4, 5),
     ret |-> totalSize + record_getSize(w.world) + rec_header_size,
     err |-> ""]

\* MobWorld.dump: returns self, the tokens written, the returned size and
\* err.  worldCellBlock.getSize() raises AttributeError without a cell.
MobWorld_dump(w) ==
    IF w.world = None
    THEN [self |-> w, stream |-> << >>, ret |-> 0, err |-> "AttributeError"]
    ELSE IF ~w.changed /\ w.data = None
    THEN [self |-> w, stream |-> record_dump(w.world) \o << w.header >>,
          ret |-> 0, err |-> "TypeError"]
    ELSE IF ~w.changed
    THEN [self |-> w,
          stream |-> record_dump(w.world) \o << w.header >> \o w.data.bytes,
          ret |-> w.size + record_getSize(w.world) + rec_header_size,
          err |-> ""]
    ELSE IF w.worldCellBlock # None /\ w.worldCellBlock.cell = None
    THEN [self |-> w, stream |-> record_dump(w.world), ret |-> 0,
          err |-> "AttributeError"]
    ELSE IF w.cellBlocks # << >> \/ w.road # None \/ w.worldCellBlock # None
    THEN MobWorld_dump_children(w, getBsbSizes(w),
            getBsbSizes(w).totalSize
            + (IF w.road # None
               THEN record_getSize(w.road) + rec_header_size ELSE 0)
            + (IF w.worldCellBlock # None
               THEN MobCell_getSize(w.worldCellBlock) ELSE 0))
    ELSE [self |-> w, stream |-> record_dump(w.world),
          ret |-> record_getSize(w.world) + rec_header_size, err |-> ""]

\* MobCells.updateMasters: masters and err.
MobCells_updateMasters(c) ==
    IF \E i \in 1..Len(c.cellBlocks) : c.cellBlocks[i].cell = None
    THEN [masters |-> {}, err |-> "AttributeError"]
    ELSE [masters |-> UnionSeq([i \in 1..Len(c.cellBlocks) |->
                          MobCell_updateMasters(c.cellBlocks[i]).masters]),
          err |-> ""]

\* MobWorld.updateMasters into a new MasterSet: masters and err.
MobWorld_updateMasters(w) ==
    IF w.world = None THEN [masters |-> {}, err |-> "AttributeError"]
    ELSE IF w.worldCellBlock # None /\ w.worldCellBlock.cell = None
    THEN [masters |-> {}, err |-> "AttributeError"]
    ELSE IF MobCells_updateMasters(w).err # ""
    THEN MobCells_updateMasters(w)
    ELSE [masters |-> updateMasters(w.world)
                      \cup MastersOfOne(w.road)
                      \cup (IF w.worldCellBlock # None
                            THEN MobCell_updateMasters(w.worldCellBlock).masters
                            ELSE {})
                      \cup MobCells_updateMasters(w).masters,
          err |-> ""]

\* MobWorld.keepRecords after the road and the world cell block: the rest
\* is MobCells.keepRecords and the pin of the world's fid.  k is what
\* MobCells.keepRecords returned.
world_keep_pin(k) ==
    IF k.err # "" THEN k
    ELSE IF k.self.road # None \/ k.self.worldCellBlock # None
            \/ k.self.cellBlocks # << >>
    THEN IF k.self.world = None THEN [k EXCEPT !.err = "AttributeError"]
         ELSE [k EXCEPT !.p_keep_ids = @ \cup {k.self.world.fid}]
    ELSE k

\* ... the world cell block: k is what its keepRecords returned.
world_keep_cell(w, k) ==
    IF k.err # "" THEN [self |-> [w EXCEPT !.worldCellBlock = k.self],
                        p_keep_ids |-> k.p_keep_ids, err |-> k.err]
    ELSE IF k.self.cell = None
    THEN [self |-> [w EXCEPT !.worldCellBlock = k.self],
          p_keep_ids |-> k.p_keep_ids, err |-> "AttributeError"]
    ELSE world_keep_pin(MobCells_keepRecords(
            [w EXCEPT !.worldCellBlock =
                IF k.self.cell.fid \notin k.p_keep_ids THEN None ELSE k.self],
            k.p_keep_ids))

\* ... the road is done.
world_keep_road(w, p_keep_ids) ==
    IF w.worldCellBlock # None
    THEN world_keep_cell(w, MobCell_keepRecords(w.worldCellBlock, p_keep_ids))
    ELSE world_keep_pin(MobCells_keepRecords(w, p_keep_ids))

\* MobWorld.keepRecords: returns self, the keep set and err.
MobWorld_keepRecords(w, p_keep_ids) ==
    world_keep_road([w EXCEPT !.road = KeepOne(@, p_keep_ids)], p_keep_ids)

\* One pass of the first loop of MobWorld.merge_records (world, road) once
\* the source record src_rec has been merge-filtered in place.
world_merge_single_filtered(st, attr, src_rec, a) ==
    IF a.doFilter /\ ~(updateMasters(src_rec) \subseteq a.loadSet)
    THEN [st EXCEPT !.block[attr] = None]
    ELSE IF a.iiSkipMerge
    THEN [st EXCEPT !.block[attr] = src_rec]
    ELSE IF st.self[attr] # None /\ st.self[attr].fid # src_rec.fid
    THEN [st EXCEPT !.block[attr] = src_rec, !.err = "ArgumentError"]
    ELSE [st EXCEPT !.block[attr] = src_rec,
                    !.mergeIds = @ \cup {src_rec.fid},
                    !.self[attr] = getTypeCopy(src_rec)]

world_merge_single(st, attr, a) ==
    IF st.err # "" THEN st
    ELSE IF st.block[attr] = None THEN st
    ELSE IF st.block[attr].ignored THEN st
    ELSE world_merge_single_filtered(st, attr,
            IF a.doFilter THEN mergeFilter(st.block[attr], a.loadSet)
            ELSE st.block[attr], a)

\* The world cell block part once the child's merge_records returned m:
\* IIM or the merge filter takes a newly added block out again.
world_merge_cell_after(st, m, was_newly_added, a) ==
    IF m.err # ""
    THEN [st EXCEPT !.self.worldCellBlock = m.self,
                    !.block.worldCellBlock = m.block,
                    !.mergeIds = m.mergeIds, !.err = m.err]
    ELSE IF a.iiSkipMerge
    THEN [st EXCEPT !.self.worldCellBlock =
                        IF was_newly_added THEN None ELSE m.self,
                    !.block.worldCellBlock = m.block,
                    !.mergeIds = m.mergeIds]
    ELSE IF a.doFilter /\ MobCell_updateMasters(m.self).err # ""
    THEN [st EXCEPT !.self.worldCellBlock = m.self,
                    !.block.worldCellBlock = m.block,
                    !.mergeIds = m.mergeIds,
                    !.err = MobCell_updateMasters(m.self).err]
    ELSE IF a.doFilter
            /\ ~(MobCell_updateMasters(m.self).masters \subseteq a.loadSet)
    THEN [st EXCEPT !.self.worldCellBlock =
                        IF was_newly_added THEN None ELSE m.self,
                    !.block.worldCellBlock = m.block,
                    !.mergeIds = m.mergeIds]
    ELSE [st EXCEPT !.self.worldCellBlock = m.self,
                    !.block.worldCellBlock = m.block,
                    !.mergeIds = m.mergeIds]

\* The block a world without a world cell block makes to merge into: its
\* cell is set by merge_records.
NewWorldCellBlock(w) ==
    [MobCell(GrupHeader(0, 0, 6, w.stamp), None, << >>, << >>, << >>,
             None, None) EXCEPT !.changed = FALSE]

\* `if block.worldCellBlock:` of MobWorld.merge_records.
world_merge_cell(st, a) ==
    IF st.err # "" \/ st.block.worldCellBlock = None THEN st
    ELSE world_merge_cell_after(st,
            MobCell_merge([self |-> IF st.self.worldCellBlock = None
                                    THEN NewWorldCellBlock(st.self)
                                    ELSE st.self.worldCellBlock,
                           block |-> st.block.worldCellBlock,
                           mergeIds |-> st.mergeIds, err |-> ""], a),
            st.self.worldCellBlock = None, a)

\* The call of MobCells.merge_records that ends MobWorld.merge_records.
world_merge_cells(st, a) ==
    IF st.err # "" THEN st
    ELSE MobCells_merge(st.self, st.block, st.mergeIds, a)

\* MobWorld.merge_records on the state st (self, block, mergeIds, err).
MobWorld_merge(st, a) ==
    world_merge_cells(
        world_merge_cell(
            world_merge_single(world_merge_single(st, "world", a), "road", a),
            a),
        a)

\* MobWorld.merge_records: returns self, block, mergeIds and err.
MobWorld_merge_records(self, block, loadSet, mergeIds0, iiSkipMerge, doFilter) ==
    MobWorld_merge([self |-> self, block |-> block, mergeIds |-> mergeIds0,
                    err |-> ""],
                   MergeArgs(loadSet, iiSkipMerge, doFilter))

--------------------------------------------------------------------------
(* MobWorlds: a list of world blocks and the index id_worldBlocks, which   *)
(* maps a world's FormID to a world block of the list (its position).      *)

\* A MobWorlds after __init__ and an eager load.
MobWorlds(header, worldBlocks) ==
    setChanged(MobBase_init("MobWorlds", header))
    @@ [worldBlocks |-> worldBlocks, id_worldBlocks |-> EmptyIndex]

\* MobWorlds.getSize: val and err; the sum of the world blocks' getSize.
MobWorlds_getSize(g) ==
    IF \E i \in 1..Len(g.worldBlocks) :
            MobWorld_getSize(g.worldBlocks[i]).err # ""
    THEN [val |-> 0, err |-> "AbstractError"]
    ELSE [val |-> rec_header_size
                  + SumSeq([i \in 1..Len(g.worldBlocks) |->
                                MobWorld_getSize(g.worldBlocks[i]).val]),
          err |-> ""]

\* `sum(x.dump(out) for x in self.worldBlocks)` from position i on: the
\* world blocks afterwards, the tokens written, the sum and err.
RECURSIVE worlds_dump_loop(_, _)
worlds_dump_loop(acc, i) ==
    IF i > Len(acc.worldBlocks) \/ acc.err # "" THEN acc
    ELSE worlds_dump_loop(
            [worldBlocks |->
                [acc.worldBlocks EXCEPT ![i] = MobWorld_dump(@).self],
             stream |-> acc.stream \o MobWorld_dump(acc.worldBlocks[i]).stream,
             sum |-> acc.sum + MobWorld_dump(acc.worldBlocks[i]).ret,
             err |-> MobWorld_dump(acc.worldBlocks[i]).err],
            i + 1)

\* The changed branch of MobWorlds.dump once the world blocks are written:
\* the size field of the header written first is patched to totalSize.
MobWorlds_dump_patch(g, d) ==
    [self |-> [g EXCEPT !.worldBlocks = d.worldBlocks],
     stream |-> << TopGrupHeader(IF d.err = "" THEN rec_header_size + d.sum
                                 ELSE 0, g.label, 0, g.stamp) >>
                \o d.stream,
     err |-> d.err]

\* MobWorlds.dump: returns self, the tokens written and err.
MobWorlds_dump(g) ==
    IF ~g.changed /\ g.data = None
    THEN [self |-> g, stream |-> << g.header >>, err |-> "TypeError"]
    ELSE IF ~g.changed
    THEN [self |-> g, stream |-> << g.header >> \o g.data.bytes, err |-> ""]
    ELSE IF g.worldBlocks = << >>
    THEN [self |-> g, stream |-> << >>, err |-> ""]
    ELSE MobWorlds_dump_patch(g,
            worlds_dump_loop([worldBlocks |-> g.worldBlocks,
                              stream |-> << >>, sum |-> 0, err |-> ""], 1))

\* dict((x.world.fid, x) for x in self.worldBlocks)
MobWorlds_indexRecords(g) ==
    IF \E i \in 1..Len(g.worldBlocks) : g.worldBlocks[i].world = None
    THEN [self |-> g, err |-> "AttributeError"]
    ELSE [self |-> [g EXCEPT !.id_worldBlocks =
                      [k \in {g.worldBlocks[i].world.fid :
                                 i \in 1..Len(g.worldBlocks)} |->
                         CHOOSE i \in 1..Len(g.worldBlocks) :
                            /\ g.worldBlocks[i].world.fid = k
                            /\ \A j \in (i + 1)..Len(g.worldBlocks) :
                                  g.worldBlocks[j].world.fid # k]],
          err |-> ""]

\* `if self.worldBlocks and not self.id_worldBlocks: self.indexRecords()`
MobWorlds_ensure_index(g) ==
    IF g.worldBlocks # << >> /\ DOMAIN g.id_worldBlocks = {}
    THEN MobWorlds_indexRecords(g)
    ELSE [self |-> g, err |-> ""]

\* setWorld once the index is there.
setWorld_indexed(r, world, worldcellblock) ==
    IF r.err # "" THEN r
    ELSE IF world.fid \in DOMAIN r.self.id_worldBlocks
    THEN [r EXCEPT
            !.self.worldBlocks[r.self.id_worldBlocks[world.fid]].world = world,
            !.self.worldBlocks[r.self.id_worldBlocks[world.fid]].worldCellBlock
                = worldcellblock]
    ELSE [r EXCEPT
            !.self.worldBlocks =
                Append(@, MobWorld(GrupHeader(0, 0, 1, r.self.stamp), world,
                                   None, None, << >>)),
            !.self.id_worldBlocks =
                Put(@, world.fid, Len(r.self.worldBlocks) + 1)]

\* MobWorlds.setWorld: returns self and err.
setWorld(g, world, worldcellblock) ==
    setWorld_indexed(MobWorlds_ensure_index(g), world, worldcellblock)

\* remove_world once the index is there: self.worldBlocks.remove(world)
\* raises ValueError unless an element of worldBlocks equals world.
remove_world_indexed(r, world) ==
    IF r.err # "" THEN r
    ELSE IF ListIndex(r.self.worldBlocks, world) = 0
    THEN [r EXCEPT !.err = "ValueError"]
    ELSE [r EXCEPT
            !.self.worldBlocks =
                RemoveAt(@, ListIndex(r.self.worldBlocks, world)),
            !.self.id_worldBlocks =
                [k \in DOMAIN @ \ {world.fid} |->
                    IF @[k] > ListIndex(r.self.worldBlocks, world)
                    THEN @[k] - 1 ELSE @[k]]]

\* MobWorlds.remove_world: returns self and err.
remove_world(g, world) ==
    remove_world_indexed(MobWorlds_ensure_index(g), world)

RECURSIVE keep_worlds_loop(_, _, _)
\* `for worldBlock in self.worldBlocks: worldBlock.keepRecords(p_keep_ids)`;
\* k is what keepRecords of world block i returned.
keep_worlds_loop(st, i, k) ==
    IF i > Len(st.self.worldBlocks) \/ st.err # "" THEN st
    ELSE keep_worlds_loop(
            [st EXCEPT !.self.worldBlocks[i] = k.self,
                       !.p_keep_ids = k.p_keep_ids,
                       !.err = k.err],
            i + 1,
            IF i + 1 > Len(st.self.worldBlocks) \/ k.err # "" THEN k
            ELSE MobWorld_keepRecords(st.self.worldBlocks[i + 1],
                                      k.p_keep_ids))

keep_worlds_finish(st) ==
    IF st.err # "" THEN st
    ELSE IF \E i \in 1..Len(st.self.worldBlocks) :
                st.self.worldBlocks[i].world = None
    THEN [st EXCEPT !.err = "AttributeError"]
    ELSE [st EXCEPT
            !.self.worldBlocks =
                SelectSeq(@, LAMBDA x : x.world.fid \in st.p_keep_ids),
            !.self.id_worldBlocks = EmptyIndex,
            !.self.changed = TRUE]

\* MobWorlds.keepRecords: returns self, the keep set and err.
MobWorlds_keepRecords(g, p_keep_ids) ==
    keep_worlds_finish(
        IF g.worldBlocks = << >>
        THEN [self |-> g, p_keep_ids |-> p_keep_ids, err |-> ""]
        ELSE keep_worlds_loop(
                [self |-> g, p_keep_ids |-> p_keep_ids, err |-> ""], 1,
                MobWorld_keepRecords(g.worldBlocks[1], p_keep_ids)))

\* The end of one pass of the loop of MobWorlds.merge_records when the
\* source world block is not kept.
merge_worlds_drop(st, pos, was_newly_added) ==
    IF was_newly_added
    THEN [st EXCEPT
            !.self = remove_world(st.self, st.self.worldBlocks[pos].world).self,
            !.err = remove_world(st.self, st.self.worldBlocks[pos].world).err]
    ELSE st

\* ... after the child's merge_records: IIM, the merge filter, or keep.
merge_worlds_after(st, i, pos, was_newly_added, a) ==
    IF st.err # "" THEN st
    ELSE IF a.iiSkipMerge THEN merge_worlds_drop(st, pos, was_newly_added)
    ELSE IF a.doFilter /\ MobWorld_updateMasters(st.block.worldBlocks[i]).err # ""
    THEN [st EXCEPT !.err = MobWorld_updateMasters(st.block.worldBlocks[i]).err]
    ELSE IF a.doFilter
            /\ ~(MobWorld_updateMasters(st.block.worldBlocks[i]).masters
                    \subseteq a.loadSet)
    THEN merge_worlds_drop(st, pos, was_newly_added)
    ELSE [st EXCEPT !.filtered = Append(@, st.block.worldBlocks[i])]

\* The child's merge_records, stored back into both lists.
merge_worlds_child(st, i, pos, m) ==
    [st EXCEPT !.self.worldBlocks[pos] = m.self,
               !.block.worldBlocks[i] = m.block,
               !.mergeIds = m.mergeIds,
               !.err = m.err]

\* One pass with the destination block at position pos of self.worldBlocks.
merge_worlds_at(st, i, pos, was_newly_added, a) ==
    IF st.err # "" THEN st
    ELSE merge_worlds_after(
            merge_worlds_child(st, i, pos,
                MobWorld_merge([self |-> st.self.worldBlocks[pos],
                                block |-> st.block.worldBlocks[i],
                                mergeIds |-> st.mergeIds, err |-> ""], a)),
            i, pos, was_newly_added, a)

\* One pass when the destination has no world with src_fid: setWorld first.
merge_worlds_add(st, i, set, a) ==
    merge_worlds_at([st EXCEPT !.self = set.self, !.err = set.err],
                    i, Len(set.self.worldBlocks), TRUE, a)

\* One pass of the loop of MobWorlds.merge_records.  The world object a
\* newly added block shares with the source block is merge-filtered in
\* place by MobWorld.merge_records.
merge_worlds_step(st, i, a) ==
    IF st.block.worldBlocks[i].world = None
    THEN [st EXCEPT !.err = "AttributeError"]
    ELSE IF st.block.worldBlocks[i].world.fid \in DOMAIN st.self.id_worldBlocks
    THEN merge_worlds_at(st, i,
            st.self.id_worldBlocks[st.block.worldBlocks[i].world.fid], FALSE, a)
    ELSE merge_worlds_add(st, i,
            setWorld(st.self, SharedCell(st.block.worldBlocks[i].world, a),
                     None), a)

RECURSIVE merge_worlds_loop(_, _, _)
merge_worlds_loop(st, i, a) ==
    IF i > Len(st.block.worldBlocks) \/ st.err # "" THEN st
    ELSE merge_worlds_loop(merge_worlds_step(st, i, a), i + 1, a)

\* block.worldBlocks = filtered_world_blocks; block.indexRecords()
merge_worlds_finish(st) ==
    IF st.err # "" THEN [self |-> st.self, block |-> st.block,
                         mergeIds |-> st.mergeIds, err |-> st.err]
    ELSE [self |-> st.self,
          block |-> MobWorlds_indexRecords(
                        [st.block EXCEPT !.worldBlocks = st.filtered]).self,
          mergeIds |-> st.mergeIds,
          err |-> MobWorlds_indexRecords(
                        [st.block EXCEPT !.worldBlocks = st.filtered]).err]

\* MobWorlds.merge_records on self, block, mergeIds.
MobWorlds_merge(self, block, mergeIds0, a) ==
    merge_worlds_finish(
        merge_worlds_loop([self |-> MobWorlds_ensure_index(self).self,
                           block |-> block, filtered |-> << >>,
                           mergeIds |-> mergeIds0,
                           err |-> MobWorlds_ensure_index(self).err], 1, a))

\* MobWorlds.merge_records: returns self, block, mergeIds and err.
MobWorlds_merge_records(self, block, loadSet, mergeIds0, iiSkipMerge, doFilter) ==
    MobWorlds_merge(self, block, mergeIds0,
                    MergeArgs(loadSet, iiSkipMerge, doFilter))

--------------------------------------------------------------------------
(* MobDials: a MobObjects whose records (DIAL) each own a list infos of    *)
(* INFO records.  DIAL records are keyed by FormID.                        *)

\* A DIAL record: a record with its INFO children.
DialRec(rec, infos) == rec @@ [infos |-> infos]

\* A MobDials after __init__ and an eager load.
MobDials(header, records) ==
    [MobObjects(header, records) EXCEPT !.kind = "MobDials"]

\* The size a DIAL record adds in MobDials.getSize.
dial_size(record) ==
    rec_header_size + record_getSize(record)
    + (IF record.infos # << >>
       THEN rec_header_size + SumSizes(record.infos) ELSE 0)

MobDials_getSize(g) ==
    IF ~g.changed THEN g.size
    ELSE rec_header_size
         + SumSeq([i \in 1..Len(g.records) |-> dial_size(g.records[i])])

\* record.dump(out) of a DIAL record: the record, then its INFO children
\* in a group of type 7.
dial_dump(record, stamp) ==
    record_dump(record)
    \o (IF record.infos # << >>
        THEN << GrupHeader(rec_header_size + SumSizes(record.infos),
                           record.fid, 7, stamp) >>
             \o DumpAll(record.infos)
        ELSE << >>)

RECURSIVE dials_dump_loop(_, _, _)
dials_dump_loop(records, i, stamp) ==
    IF i > Len(records) THEN << >>
    ELSE dial_dump(records[i], stamp) \o dials_dump_loop(records, i + 1, stamp)

\* MobObjects.dump on a MobDials: self.getSize() is MobDials.getSize.
MobDials_dump(g) ==
    IF ~g.changed
    THEN << TopGrupHeader(g.size, g.label, 0, g.stamp) >> \o g.data.bytes
    ELSE IF MobDials_getSize(g) = rec_header_size THEN << >>
    ELSE << TopGrupHeader(MobDials_getSize(g), g.label, 0, g.stamp) >>
         \o dials_dump_loop(g.records, 1, g.stamp)

\* MobDials.keepRecords
MobDials_keepRecords(g, p_keep_ids) ==
    [keepRecords(g, p_keep_ids) EXCEPT
        !.records = [i \in 1..Len(@) |->
                        [@[i] EXCEPT !.infos = KeepList(@, p_keep_ids)]]]

\* One pass of the loop over record.infos for the merge-filtered info_rec.
\* ls holds patch_infos, filtered_infos and mergeIds.
merge_info_filtered(ls, info_rec, id_patch_infos, a) ==
    IF a.doFilter /\ ~(updateMasters(info_rec) \subseteq a.loadSet) THEN ls
    ELSE IF a.iiSkipMerge
    THEN [ls EXCEPT !.filtered_infos = Append(@, info_rec)]
    ELSE IF info_rec.fid \in DOMAIN id_patch_infos
    THEN [ls EXCEPT !.filtered_infos = Append(@, info_rec),
                    !.mergeIds = @ \cup {info_rec.fid},
                    !.patch_infos[id_patch_infos[info_rec.fid]] =
                        getTypeCopy(info_rec)]
    ELSE [ls EXCEPT !.filtered_infos = Append(@, info_rec),
                    !.mergeIds = @ \cup {info_rec.fid},
                    !.patch_infos = Append(@, getTypeCopy(info_rec))]

RECURSIVE merge_infos_loop(_, _, _, _, _)
merge_infos_loop(ls, infos, i, id_patch_infos, a) ==
    IF i > Len(infos) THEN ls
    ELSE IF infos[i].ignored
    THEN merge_infos_loop(ls, infos, i + 1, id_patch_infos, a)
    ELSE merge_infos_loop(
            merge_info_filtered(ls,
                IF a.doFilter THEN mergeFilter(infos[i], a.loadSet)
                ELSE infos[i], id_patch_infos, a),
            infos, i + 1, id_patch_infos, a)

\* patch_infos when the INFO loop starts: the children of the patch file's
\* version of the DIAL, if it has one and this is not IIM.
patch_infos_of(self, record, a) ==
    IF ~a.iiSkipMerge /\ record.fid \in DOMAIN self.id_records
    THEN self.id_records[record.fid].infos
    ELSE << >>

\* The end of one pass for a DIAL that is kept: ls is what the INFO loop
\* left; new_dial (holding patch_infos) went into self by setRecord.
merge_dial_store(st, i, record, ls, a, set) ==
    IF a.iiSkipMerge
    THEN [st EXCEPT
            !.filtered = Append(@, [record EXCEPT !.infos = ls.filtered_infos]),
            !.block.records[i] = [record EXCEPT !.infos = ls.filtered_infos]]
    ELSE IF set.err # ""
    THEN [st EXCEPT !.filtered = Append(@, record),
                    !.block.records[i] = record,
                    !.mergeIds = @ \cup {record.fid},
                    !.self = set.g, !.err = set.err]
    ELSE [st EXCEPT
            !.filtered = Append(@, [record EXCEPT !.infos = ls.filtered_infos]),
            !.block.records[i] = [record EXCEPT !.infos = ls.filtered_infos],
            !.mergeIds = ls.mergeIds,
            !.self = set.g]

\* ... the INFO loop is done: copy_to_self(new_dial).
merge_dial_infos(st, i, record, ls, a) ==
    merge_dial_store(st, i, record, ls, a,
        setRecord(st.self,
                  [getTypeCopy(record) EXCEPT !.infos = ls.patch_infos]))

\* One pass of the loop of MobDials.merge_records for the merge-filtered
\* record.  st holds self, block, filtered, mergeIds and err.
merge_dial_filtered(st, i, record, a) ==
    IF a.doFilter /\ ~(updateMasters(record) \subseteq a.loadSet)
    THEN [st EXCEPT !.block.records[i] = record]
    ELSE merge_dial_infos(st, i, record,
            merge_infos_loop(
                [patch_infos |-> patch_infos_of(st.self, record, a),
                 filtered_infos |-> << >>,
                 mergeIds |-> IF a.iiSkipMerge THEN st.mergeIds
                              ELSE st.mergeIds \cup {record.fid}],
                record.infos, 1,
                id_fids_of(patch_infos_of(st.self, record, a)), a),
            a)

merge_dial(st, i, a) ==
    IF st.block.records[i].ignored THEN st
    ELSE merge_dial_filtered(st, i,
            IF a.doFilter THEN mergeFilter(st.block.records[i], a.loadSet)
            ELSE st.block.records[i], a)

RECURSIVE merge_dials_loop(_, _, _)
merge_dials_loop(st, i, a) ==
    IF i > Len(st.block.records) \/ st.err # "" THEN st
    ELSE merge_dials_loop(merge_dial(st, i, a), i + 1, a)

\* MobDials.merge_records: self.indexRecords(), the loop, then
\* block.records = filtered_dials; block.indexRecords().
MobDials_merge(self, block, mergeIds0, a) ==
    merge_objects_finish(
        merge_dials_loop([self |-> indexRecords(self), block |-> block,
                          filtered |-> << >>, mergeIds |-> mergeIds0,
                          err |-> ""], 1, a))

\* MobDials.merge_records: returns self, block, mergeIds and err.
MobDials_merge_records(self, block, loadSet, mergeIds0, iiSkipMerge, doFilter) ==
    MobDials_merge(self, block, mergeIds0,
                   MergeArgs(loadSet, iiSkipMerge, doFilter))

--------------------------------------------------------------------------
(* convertFids.  A FormID in long form is (master name, object index); in  *)
(* short form it is the integer whose top byte is the master's position in *)
(* the master list, written here as the pair ("", integer).                *)

IsLongFid(fid) == fid[1] # ""

LongFid(fid) ==
    << MasterOrder[(fid[2] \div 16777216) + 1], fid[2] % 16777216 >>

\* mapper(fid): to long form when toLong, to short form otherwise.
convertFid(fid, toLong) ==
    IF toLong THEN (IF IsLongFid(fid) THEN fid ELSE LongFid(fid))
    ELSE (IF IsLongFid(fid) THEN << "", ShortFid(fid) >> ELSE fid)

\* record.convertFids(mapper, toLong)
record_convertFids(record, toLong) ==
    [record EXCEPT !.fid = convertFid(@, toLong)]

convertFids_list(records, toLong) ==
    [i \in 1..Len(records) |-> record_convertFids(records[i], toLong)]

convertFids_one(record, toLong) ==
    IF record = None THEN None ELSE record_convertFids(record, toLong)

\* MobObjects.convertFids: the records are converted and the index cleared.
MobObjects_convertFids(g, toLong) ==
    [g EXCEPT !.records = convertFids_list(@, toLong),
              !.id_records = EmptyIndex]

\* MobCell.convertFids (a block without a cell record is not converted:
\* the callers never hold one).
MobCell_convertFids(cb, toLong) ==
    [cb EXCEPT !.cell = convertFids_one(@, toLong),
               !.temp = convertFids_list(@, toLong),
               !.persistent = convertFids_list(@, toLong),
               !.distant = convertFids_list(@, toLong),
               !.land = convertFids_one(@, toLong),
               !.pgrd = convertFids_one(@, toLong)]

\* MobCells.convertFids: every cell block is converted; id_cellBlock is
\* left as it is.
MobCells_convertFids(c, toLong) ==
    [c EXCEPT !.cellBlocks =
        [i \in 1..Len(c.cellBlocks) |->
            MobCell_convertFids(c.cellBlocks[i], toLong)]]

\* MobWorld.convertFids
MobWorld_convertFids(w, toLong) ==
    MobCells_convertFids(
        [w EXCEPT !.world = convertFids_one(@, toLong),
                  !.road = convertFids_one(@, toLong),
                  !.worldCellBlock =
                      IF @ = None THEN None
                      ELSE MobCell_convertFids(@, toLong)],
        toLong)

\* MobWorlds.convertFids: every world block is converted; id_worldBlocks is
\* left as it is.
MobWorlds_convertFids(g, toLong) ==
    [g EXCEPT !.worldBlocks =
        [i \in 1..Len(g.worldBlocks) |->
            MobWorld_convertFids(g.worldBlocks[i], toLong)]]

--------------------------------------------------------------------------
(* MobDials.updateRecords.  The source block's FormIDs are in short form   *)
(* and mapper takes them to long form.                                     *)

\* record.getTypeCopy(mapper): a copy with its FormID mapped.
getTypeCopy_mapped(record) ==
    [record EXCEPT !.copy = TRUE, !.fid = convertFid(@, TRUE)]

\* id_patch_infos[info_fid]: the last position of the FormID in the list,
\* 0 if it has none.
id_patch_infos_of(updated_infos, info_fid) ==
    IF \E i \in 1..Len(updated_infos) : updated_infos[i].fid = info_fid
    THEN CHOOSE i \in 1..Len(updated_infos) :
            /\ updated_infos[i].fid = info_fid
            /\ \A j \in (i + 1)..Len(updated_infos) :
                  updated_infos[j].fid # info_fid
    ELSE 0

\* One pass of `for src_info in record.infos`; ls holds updated_infos and
\* mergeIds.
update_info(ls, src_info) ==
    IF id_patch_infos_of(ls.updated_infos, convertFid(src_info.fid, TRUE)) # 0
    THEN [updated_infos |->
            [ls.updated_infos EXCEPT
                ![id_patch_infos_of(ls.updated_infos,
                                    convertFid(src_info.fid, TRUE))] =
                    getTypeCopy_mapped(src_info)],
          mergeIds |-> ls.mergeIds \ {convertFid(src_info.fid, TRUE)}]
    ELSE ls

RECURSIVE update_infos_loop(_, _, _)
update_infos_loop(ls, infos, j) ==
    IF j > Len(infos) THEN ls
    ELSE update_infos_loop(update_info(ls, infos[j]), infos, j + 1)

\* Mutant of update_dial_unpin: the DIAL is always discarded from mergeIds.
update_dial_unpin_always(mergeIds0, record_fid, updated_infos) ==
    mergeIds0 \ {record_fid}

\* The end of a pass: the DIAL is discarded from mergeIds if none of its
\* INFOs is in mergeIds.
update_dial_unpin(mergeIds0, record_fid, updated_infos) ==
    IF \E i \in 1..Len(updated_infos) : updated_infos[i].fid \in mergeIds0
    THEN mergeIds0
    ELSE mergeIds0 \ {record_fid}

\* ... once the INFOs are updated (ls): the copy of the DIAL goes into self
\* by setRecord (set), takes the updated INFOs, and is unpinned.
update_dial_store(st, ls, set, record_fid) ==
    IF set.err # "" THEN [st EXCEPT !.self = set.g, !.err = set.err]
    ELSE [st EXCEPT
            !.self = set.g,
            !.mergeIds = update_dial_unpin(ls.mergeIds, record_fid,
                                           ls.updated_infos)]

\* updated_infos is the list object of patch_dial.infos: what the loop
\* wrote into it is seen through every DIAL of self that holds that list.
share_updated_infos(self, record_fid, updated_infos) ==
    [self EXCEPT !.records =
        [i \in 1..Len(self.records) |->
            IF self.records[i].fid = record_fid
            THEN [self.records[i] EXCEPT !.infos = updated_infos]
            ELSE self.records[i]]]

update_dial_infos(st, record, ls) ==
    update_dial_store(st, ls,
        setRecord(share_updated_infos(st.self, convertFid(record.fid, TRUE),
                                      ls.updated_infos),
                  [getTypeCopy_mapped(record) EXCEPT
                      !.infos = ls.updated_infos]),
        convertFid(record.fid, TRUE))

\* One pass of the loop over the source's active DIALs; id_dials is the
\* dict built before the loop.
update_dial(st, record, id_dials) ==
    IF convertFid(record.fid, TRUE) \in DOMAIN id_dials
    THEN update_dial_infos(st, record,
            update_infos_loop(
                [updated_infos |->
                    IndexByFid(st.self.records)[convertFid(record.fid, TRUE)]
                        .infos,
                 mergeIds |-> st.mergeIds],
                record.infos, 1))
    ELSE st

RECURSIVE update_dials_loop(_, _, _, _)
update_dials_loop(st, active, i, id_dials) ==
    IF i > Len(active) \/ st.err # "" THEN st
    ELSE update_dials_loop(update_dial(st, active[i], id_dials), active,
                           i + 1, id_dials)

\* MobDials.updateRecords: returns self, mergeIds and err.
MobDials_updateRecords(self, srcBlock, mergeIds0) ==
    update_dials_loop([self |-> self, mergeIds |-> mergeIds0, err |-> ""],
                      getActiveRecords(srcBlock), 1, IndexByFid(self.records))

--------------------------------------------------------------------------
(* updateRecords of MobCell, MobCells and MobWorld.  st holds self,        *)
(* mergeIds and err; the source block's FormIDs are in short form.         *)

\* Mutant of update_single: a source singleton of another FormID is not
\* told apart and replaces the destination's.
update_single_unchecked(st, attr, srcBlock) ==
    IF st.err # "" THEN st
    ELSE IF st.self[attr] = None \/ srcBlock[attr] = None THEN st
    ELSE IF srcBlock[attr].ignored THEN st
    ELSE [st EXCEPT
            !.self[attr] = getTypeCopy_mapped(srcBlock[attr]),
            !.mergeIds = @ \ {convertFid(srcBlock[attr].fid, TRUE)}]

\* One pass of the first loop of MobCell.updateRecords (cell, pgrd, land)
\* and of MobWorld.updateRecords (world, road).
update_single(st, attr, srcBlock) ==
    IF st.err # "" THEN st
    ELSE IF st.self[attr] = None \/ srcBlock[attr] = None THEN st
    ELSE IF st.self[attr].fid # convertFid(srcBlock[attr].fid, TRUE)
    THEN [st EXCEPT !.err = "ArgumentError"]
    ELSE IF srcBlock[attr].ignored THEN st
    ELSE [st EXCEPT
            !.self[attr] = getTypeCopy_mapped(srcBlock[attr]),
            !.mergeIds = @ \ {convertFid(srcBlock[attr].fid, TRUE)}]

\* One pass of the loop over a source list; ls holds recordList and
\* mergeIds, fids is the map from FormID to position built before the loop.
update_list_record(ls, record, fids) ==
    IF ~record.ignored /\ convertFid(record.fid, TRUE) \in DOMAIN fids
    THEN [recordList |->
            [ls.recordList EXCEPT ![fids[convertFid(record.fid, TRUE)]] =
                getTypeCopy_mapped(record)],
          mergeIds |-> ls.mergeIds \ {convertFid(record.fid, TRUE)}]
    ELSE ls

RECURSIVE update_list_loop(_, _, _, _)
update_list_loop(ls, src_list, i, fids) ==
    IF i > Len(src_list) THEN ls
    ELSE update_list_loop(update_list_record(ls, src_list[i], fids),
                          src_list, i + 1, fids)

update_list_store(st, attr, ls) ==
    [st EXCEPT !.self[attr] = ls.recordList, !.mergeIds = ls.mergeIds]

\* One pass of the second loop of MobCell.updateRecords (persistent, temp,
\* distant).
update_list(st, attr, srcBlock) ==
    IF st.err # "" THEN st
    ELSE update_list_store(st, attr,
            update_list_loop([recordList |-> st.self[attr],
                              mergeIds |-> st.mergeIds],
                             srcBlock[attr], 1, id_fids_of(st.self[attr])))

\* MobCell.updateRecords on the state st.
MobCell_update(st, srcBlock) ==
    update_list(
      update_list(
        update_list(
          update_single(
            update_single(
              update_single(st, "cell", srcBlock),
              "pgrd", srcBlock),
            "land", srcBlock),
          "persistent", srcBlock),
        "temp", srcBlock),
      "distant", srcBlock)

\* MobCell.updateRecords: returns self, mergeIds and err.
MobCell_updateRecords(self, srcBlock, mergeIds0) ==
    MobCell_update([self |-> self, mergeIds |-> mergeIds0, err |-> ""],
                   srcBlock)

\* The child's updateRecords, stored back into the list.
update_cells_child(st, pos, u) ==
    [st EXCEPT !.self.cellBlocks[pos] = u.self,
               !.mergeIds = u.mergeIds,
               !.err = u.err]

\* One pass of the loop of MobCells.updateRecords: the destination block
\* the index holds for the mapped FormID of the source block's cell, if
\* any, is updated.
update_cells_step(st, srcCellBlock) ==
    IF srcCellBlock.cell = None THEN [st EXCEPT !.err = "AttributeError"]
    ELSE IF convertFid(srcCellBlock.cell.fid, TRUE)
                \in DOMAIN st.self.id_cellBlock
    THEN update_cells_child(st,
            st.self.id_cellBlock[convertFid(srcCellBlock.cell.fid, TRUE)],
            MobCell_updateRecords(
                st.self.cellBlocks[
                    st.self.id_cellBlock[convertFid(srcCellBlock.cell.fid,
                                                    TRUE)]],
                srcCellBlock, st.mergeIds))
    ELSE st

RECURSIVE update_cells_loop(_, _, _)
update_cells_loop(st, srcBlock, i) ==
    IF st.err # "" \/ i > Len(srcBlock.cellBlocks) THEN st
    ELSE update_cells_loop(update_cells_step(st, srcBlock.cellBlocks[i]),
                           srcBlock, i + 1)

\* MobCells.updateRecords on the state st: the index is built if need be.
MobCells_update(st, srcBlock) ==
    IF st.err # "" THEN st
    ELSE update_cells_loop(
            [st EXCEPT !.self = MobCells_ensure_index(st.self).self,
                       !.err = MobCells_ensure_index(st.self).err],
            srcBlock, 1)

\* `if self.worldCellBlock and srcBlock.worldCellBlock:` of
\* MobWorld.updateRecords.
update_world_cell(st, srcBlock) ==
    IF st.err # "" THEN st
    ELSE IF st.self.worldCellBlock = None \/ srcBlock.worldCellBlock = None
    THEN st
    ELSE [st EXCEPT
            !.self.worldCellBlock =
                MobCell_updateRecords(st.self.worldCellBlock,
                                      srcBlock.worldCellBlock,
                                      st.mergeIds).self,
            !.mergeIds =
                MobCell_updateRecords(st.self.worldCellBlock,
                                      srcBlock.worldCellBlock,
                                      st.mergeIds).mergeIds,
            !.err =
                MobCell_updateRecords(st.self.worldCellBlock,
                                      srcBlock.worldCellBlock,
                                      st.mergeIds).err]

\* MobWorld.updateRecords: returns self, mergeIds and err.
MobWorld_updateRecords(self, srcBlock, mergeIds0) ==
    MobCells_update(
        update_world_cell(
            update_single(
                update_single([self |-> self, mergeIds |-> mergeIds0,
                               err |-> ""],
                              "world", srcBlock),
                "road", srcBlock),
            srcBlock),
        srcBlock)

--------------------------------------------------------------------------
(* Eager loads.  The input stream ins is the sequence of the items of the  *)
(* file region: packed record headers with their data, group headers, and  *)
(* single bytes.  A reader is at a byte position pos of ins.               *)

\* A record in the stream: its header (recType, size, fid) and its data.
InRec(recType, record) == [t |-> "REC", recType |-> recType, rec |-> record]

\* The byte offset at which item i of ins starts.
StartOf(ins, i) == StreamLen(SubSeq(ins, 1, i - 1))

\* The item that starts at byte pos; Len(ins) + 1 at the end of ins, and 0
\* where no item starts.
ItemAt(ins, pos) ==
    IF \E i \in 1..(Len(ins) + 1) : StartOf(ins, i) = pos
    THEN CHOOSE i \in 1..(Len(ins) + 1) : StartOf(ins, i) = pos
    ELSE 0

\* ins.atEnd(endPos, errLabel): val and err.
atEnd(pos, endPos) ==
    IF pos > endPos THEN [val |-> TRUE, err |-> "ModError"]
    ELSE [val |-> pos = endPos, err |-> ""]

\* Whether ins.unpackRecHeader() at pos finds a packed header.
HasHeaderAt(ins, pos) ==
    /\ ItemAt(ins, pos) \in 1..Len(ins)
    /\ ins[ItemAt(ins, pos)].t \in {"REC", "GRUP"}

\* header.recType of the header unpacked from an item.
recTypeOf(item) == IF item.t = "GRUP" THEN "GRUP" ELSE item.recType

\* The header unpacked from a record item, as MobBase.__init__ takes a
\* header that is not a GRUP header: label, groupType and stamp are the
\* record's flags1, fid and flags2.
RecHeader(item) ==
    [t |-> "REC", recType |-> item.recType, size |-> item.rec.size,
     label |-> 0, groupType |-> item.rec.fid, stamp |-> 0]

\* loadFactory.getCellTypeClass(): the record types of a cell's children;
\* lf.cellClasses are those of them that have a class to load them with.
cellType_class == {"REFR", "ACHR", "ACRE", "LAND", "PGRD"}

--------------------------------------------------------------------------
(* MobCell.load_rec_group.  st holds self, pos, the local groupType (0     *)
(* while it is unbound) and err.                                           *)

\* The GRUP branch; subgroupLoaded is the list made at the top of the pass.
load_cell_grup(st, header, subgroupLoaded) ==
    IF header.groupType \notin {8, 9, 10} THEN [st EXCEPT !.err = "ModError"]
    ELSE IF subgroupLoaded[header.groupType - 7]
         THEN [st EXCEPT !.err = "ModError"]
         ELSE [st EXCEPT !.groupType = header.groupType,
                         !.pos = @ + rec_header_size]

\* The REFR / ACHR / ACRE branch.
load_cell_ref(st, item) ==
    IF st.groupType = 0 THEN [st EXCEPT !.err = "UnboundLocalError"]
    ELSE [st EXCEPT
            !.self = CASE st.groupType = 8 ->
                            [@ EXCEPT !.persistent = Append(@, item.rec)]
                       [] st.groupType = 9 ->
                            [@ EXCEPT !.temp = Append(@, item.rec)]
                       [] OTHER ->
                            [@ EXCEPT !.distant = Append(@, item.rec)],
            !.pos = @ + TokLen(item)]

\* One pass of the loop, on the item whose header is read.
load_cell_item(st, item, lf) ==
    IF recTypeOf(item) = "GRUP"
    THEN load_cell_grup(st, item, << FALSE, FALSE, FALSE >>)
    ELSE IF recTypeOf(item) \notin cellType_class
    THEN [st EXCEPT !.err = "ModError"]
    ELSE IF recTypeOf(item) \notin lf.cellClasses
    THEN [st EXCEPT !.pos = @ + TokLen(item)]
    ELSE IF recTypeOf(item) \in {"REFR", "ACHR", "ACRE"}
    THEN load_cell_ref(st, item)
    ELSE IF recTypeOf(item) = "LAND"
    THEN [st EXCEPT !.self.land = item.rec, !.pos = @ + TokLen(item)]
    ELSE [st EXCEPT !.self.pgrd = item.rec, !.pos = @ + TokLen(item)]

RECURSIVE load_cell_loop(_, _, _, _)
load_cell_loop(st, ins, endPos, lf) ==
    IF st.err # "" THEN st
    ELSE IF atEnd(st.pos, endPos).err # ""
    THEN [st EXCEPT !.err = atEnd(st.pos, endPos).err]
    ELSE IF atEnd(st.pos, endPos).val THEN st
    ELSE IF ~HasHeaderAt(ins, st.pos) THEN [st EXCEPT !.err = "ModError"]
    ELSE load_cell_loop(load_cell_item(st, ins[ItemAt(ins, st.pos)], lf),
                        ins, endPos, lf)

\* What a load_rec_group gives back once its loop ended in s: self (changed
\* when the loop did not fail), pos and err.
load_done(s) ==
    [self |-> IF s.err = "" THEN setChanged(s.self) ELSE s.self,
     pos |-> s.pos, err |-> s.err]

\* MobCell.load_rec_group(ins, endPos) with ins at pos: self, pos, err.
MobCell_load_rec_group(self, ins, pos, endPos, lf) ==
    load_done(load_cell_loop([self |-> self, pos |-> pos, groupType |-> 0,
                              err |-> ""], ins, endPos, lf))

\* MobCell(header, loadFactory, cell): no ins, nothing loaded.
MobCell_new(header, cell) ==
    MobBase_init("MobCell", header)
    @@ [cell |-> cell, persistent |-> << >>, temp |-> << >>,
        distant |-> << >>, land |-> None, pgrd |-> None]

\* MobCell(header, loadFactory, cell, ins, True): MobBase.load with
\* do_unpack, which ends with data = None and setChanged.
MobCell_unpack(header, cell, ins, pos, lf) ==
    MobCell_load_rec_group(MobCell_new(header, cell), ins, pos,
                           pos + header.size - rec_header_size, lf)

--------------------------------------------------------------------------
(* MobICells.load_rec_group.  st holds self, pos, the locals cell,         *)
(* endBlockPos and endSubblockPos, and err.                                *)

\* Mutant of load_icells_outside: only the block's end is looked at.
load_icells_outside_block(tell, endBlockPos, endSubblockPos) ==
    tell > endBlockPos

\* `insTell() > endBlockPos or insTell() > endSubblockPos`
load_icells_outside(tell, endBlockPos, endSubblockPos) ==
    tell > endBlockPos \/ tell > endSubblockPos

\* The branch of a record of the group's type (CELL).
load_icells_cell(st, item) ==
    [st EXCEPT
        !.self.cellBlocks =
            IF st.cell # None
            THEN Append(@, MobCell_new(RecHeader(item), st.cell.rec))
            ELSE @,
        !.cell = [rec |-> item.rec],
        !.pos = @ + TokLen(item),
        !.err = IF load_icells_outside(st.pos + TokLen(item),
                                       st.endBlockPos, st.endSubblockPos)
                THEN "ModError" ELSE ""]

\* The cell block of a cell children group: unpacked from ins at tell, or
\* left empty with the group's bytes skipped.  Returns self, pos and err.
load_children_block(header, cell, ins, tell, lf) ==
    IF lf.unpackCellBlocks
    THEN MobCell_unpack(header, cell, ins, tell, lf)
    ELSE [self |-> MobCell_new(header, cell),
          pos |-> tell + header.size - rec_header_size, err |-> ""]

\* ... the cell block made (cb) is appended and the cell is dealt with.
load_icells_append(st, cb) ==
    IF cb.err # "" THEN [st EXCEPT !.pos = cb.pos, !.err = cb.err]
    ELSE [st EXCEPT !.self.cellBlocks = Append(@, cb.self),
                    !.pos = cb.pos, !.cell = None]

\* The GRUP branch.
load_icells_grup(st, header, ins, lf) ==
    CASE header.groupType = 2 ->
            [st EXCEPT !.pos = @ + rec_header_size,
                       !.endBlockPos = st.pos + header.size]
      [] header.groupType = 3 ->
            [st EXCEPT !.pos = @ + rec_header_size,
                       !.endSubblockPos = st.pos + header.size]
      [] header.groupType = 6 ->
            IF st.cell = None THEN [st EXCEPT !.err = "ModError"]
            ELSE IF header.label # st.cell.rec.fid
            THEN [st EXCEPT !.err = "ModError"]
            ELSE load_icells_append(st,
                    load_children_block(header, st.cell.rec, ins,
                                        st.pos + rec_header_size, lf))
      [] OTHER -> [st EXCEPT !.err = "ModError"]

load_icells_item(st, item, ins, lf) ==
    IF recTypeOf(item) = st.self.label THEN load_icells_cell(st, item)
    ELSE IF recTypeOf(item) = "GRUP" THEN load_icells_grup(st, item, ins, lf)
    ELSE [st EXCEPT !.err = "ModError"]

RECURSIVE load_icells_loop(_, _, _, _)
load_icells_loop(st, ins, endPos, lf) ==
    IF st.err # "" THEN st
    ELSE IF atEnd(st.pos, endPos).err # ""
    THEN [st EXCEPT !.err = atEnd(st.pos, endPos).err]
    ELSE IF atEnd(st.pos, endPos).val THEN st
    ELSE IF ~HasHeaderAt(ins, st.pos) THEN [st EXCEPT !.err = "ModError"]
    ELSE load_icells_loop(
            load_icells_item(st, ins[ItemAt(ins, st.pos)], ins, lf),
            ins, endPos, lf)

\* MobICells.load_rec_group(ins, endPos) with ins at pos.
MobICells_load_rec_group(self, ins, pos, endPos, lf) ==
    load_done(load_icells_loop(
        [self |-> self, pos |-> pos, cell |-> None, endBlockPos |-> 0,
         endSubblockPos |-> 0, err |-> ""], ins, endPos, lf))

--------------------------------------------------------------------------
(* MobDials.load_rec_group.  st holds self, pos, hasRecord (whether the    *)
(* local record is set: it is then the last DIAL of self.records) and err. *)

\* record.loadInfos(ins, endPos, infoClass): the INFO records up to endPos
\* are appended to the DIAL's infos; anything else is a ModError.
RECURSIVE loadInfos(_, _, _)
loadInfos(ld, ins, endPos) ==
    IF atEnd(ld.pos, endPos).err # ""
    THEN [ld EXCEPT !.err = atEnd(ld.pos, endPos).err]
    ELSE IF atEnd(ld.pos, endPos).val THEN ld
    ELSE IF ~HasHeaderAt(ins, ld.pos) THEN [ld EXCEPT !.err = "ModError"]
    ELSE IF recTypeOf(ins[ItemAt(ins, ld.pos)]) # "INFO"
    THEN [ld EXCEPT !.err = "ModError"]
    ELSE loadInfos([ld EXCEPT
                        !.infos = Append(@, ins[ItemAt(ins, ld.pos)].rec),
                        !.pos = @ + TokLen(ins[ItemAt(ins, ld.pos)])],
                   ins, endPos)

\* ... what loadInfos gave back (ld) is kept.
load_dials_attach(st, ld) ==
    [st EXCEPT !.self.records[Len(st.self.records)].infos = ld.infos,
               !.pos = ld.pos, !.err = ld.err]

\* The branch of a group of type 7 once record is known to be set: the
\* INFOs of the group go to record, or are skipped without an INFO class.
load_dials_children(st, header, ins, lf) ==
    IF lf.infoClass
    THEN load_dials_attach(st,
            loadInfos([infos |-> st.self.records[Len(st.self.records)].infos,
                       pos |-> st.pos + rec_header_size, err |-> ""],
                      ins, st.pos + header.size))
    ELSE [st EXCEPT !.pos = @ + header.size]

load_dials_item(st, item, ins, lf) ==
    IF recTypeOf(item) = st.self.label
    THEN [st EXCEPT !.self.records = Append(@, DialRec(item.rec, << >>)),
                    !.hasRecord = TRUE,
                    !.pos = @ + TokLen(item)]
    ELSE IF recTypeOf(item) = "GRUP"
    THEN IF item.groupType # 7 THEN [st EXCEPT !.err = "ModError"]
         ELSE IF ~st.hasRecord THEN [st EXCEPT !.err = "ModError"]
         ELSE load_dials_children(st, item, ins, lf)
    ELSE [st EXCEPT !.err = "ModError"]

RECURSIVE load_dials_loop(_, _, _, _)
load_dials_loop(st, ins, endPos, lf) ==
    IF st.err # "" THEN st
    ELSE IF atEnd(st.pos, endPos).err # ""
    THEN [st EXCEPT !.err = atEnd(st.pos, endPos).err]
    ELSE IF atEnd(st.pos, endPos).val THEN st
    ELSE IF ~HasHeaderAt(ins, st.pos) THEN [st EXCEPT !.err = "ModError"]
    ELSE load_dials_loop(
            load_dials_item(st, ins[ItemAt(ins, st.pos)], ins, lf),
            ins, endPos, lf)

\* MobDials.load_rec_group(ins, endPos) with ins at pos.
MobDials_load_rec_group(self, ins, pos, endPos, lf) ==
    load_done(load_dials_loop(
        [self |-> self, pos |-> pos, hasRecord |-> FALSE, err |-> ""],
        ins, endPos, lf))

--------------------------------------------------------------------------
(* MobWorld.load_rec_group.  st holds self, pos, the locals cell, block    *)
(* (whether it is set), endBlockPos, endSubblockPos and cells, and err.    *)

\* MobWorld(header, loadFactory, world): no ins, nothing loaded.
MobWorld_new(header, world) ==
    MobBase_init("MobWorld", header)
    @@ [cellBlocks |-> << >>, id_cellBlock |-> EmptyIndex, world |-> world,
        road |-> None, worldCellBlock |-> None]

\* The header as a container takes it: a GRUP header as it is.
HeaderOf(item) == IF item.t = "GRUP" THEN item ELSE RecHeader(item)

\* `if block: cellBlocksAppend(cellBlock)`, else the block becomes the
\* world cell block, of which there is at most one.
load_world_place(st, block, cellBlock) ==
    IF block THEN [st EXCEPT !.self.cellBlocks = Append(@, cellBlock)]
    ELSE IF st.self.worldCellBlock # None THEN [st EXCEPT !.err = "ModError"]
    ELSE [st EXCEPT !.self.worldCellBlock = cellBlock]

\* The CELL branch after the pending cell was dealt with: the record is
\* read and, inside a block, given a cell block at once.
load_world_cell_read(st, item, lf) ==
    IF st.err # "" THEN st
    ELSE IF st.block
    THEN load_world_place(
            [st EXCEPT !.cell = [rec |-> item.rec],
                       !.pos = @ + TokLen(item),
                       !.cells = IF lf.isFallout
                                 THEN (item.rec.fid :> item.rec) @@ @ ELSE @],
            st.block, MobCell_new(RecHeader(item), item.rec))
    ELSE [st EXCEPT !.cell = [rec |-> item.rec],
                    !.pos = @ + TokLen(item),
                    !.cells = IF lf.isFallout
                              THEN (item.rec.fid :> item.rec) @@ @ ELSE @]

load_world_cell(st, item, lf) ==
    IF st.cell # None
    THEN load_world_cell_read(
            load_world_place(st, st.block,
                             MobCell_new(RecHeader(item), st.cell.rec)),
            item, lf)
    ELSE load_world_cell_read(st, item, lf)

\* ... the cell block of a children group (cb) is placed.
load_world_children_place(st, cb) ==
    IF cb.err # "" THEN [st EXCEPT !.pos = cb.pos, !.err = cb.err]
    ELSE [load_world_place([st EXCEPT !.pos = cb.pos], st.block, cb.self)
            EXCEPT !.cell = None]

\* The cell children branch (group type 6), cell being the local.
load_world_children(st, header, cell, ins, lf) ==
    IF cell = None THEN [st EXCEPT !.cell = None, !.err = "ModError"]
    ELSE IF header.label # cell.rec.fid
    THEN [st EXCEPT !.cell = cell, !.err = "ModError"]
    ELSE load_world_children_place([st EXCEPT !.cell = cell],
            load_children_block(header, cell.rec, ins,
                                st.pos + rec_header_size, lf))

load_world_grup(st, header, ins, lf) ==
    CASE header.groupType = 4 ->
            [st EXCEPT !.block = TRUE, !.pos = @ + rec_header_size,
                       !.endBlockPos = st.pos + header.size]
      [] header.groupType = 5 ->
            [st EXCEPT !.pos = @ + rec_header_size,
                       !.endSubblockPos = st.pos + header.size]
      [] header.groupType = 6 ->
            load_world_children(st, header,
                IF lf.isFallout
                THEN IF header.label \in DOMAIN st.cells
                     THEN [rec |-> st.cells[header.label]] ELSE None
                ELSE st.cell,
                ins, lf)
      [] OTHER -> [st EXCEPT !.err = "ModError"]

load_world_item(st, item, ins, lf) ==
    IF recTypeOf(item) = "ROAD"
    THEN IF "ROAD" \notin lf.cellClasses
         THEN [st EXCEPT !.pos = @ + TokLen(item)]
         ELSE [st EXCEPT !.self.road = item.rec, !.pos = @ + TokLen(item)]
    ELSE IF recTypeOf(item) = "CELL" THEN load_world_cell(st, item, lf)
    ELSE IF recTypeOf(item) = "GRUP" THEN load_world_grup(st, item, ins, lf)
    ELSE [st EXCEPT !.err = "ModError"]

RECURSIVE load_world_loop(_, _, _, _)
load_world_loop(st, ins, endPos, lf) ==
    IF st.err # "" THEN st
    ELSE IF atEnd(st.pos, endPos).err # ""
    THEN [st EXCEPT !.err = atEnd(st.pos, endPos).err]
    ELSE IF atEnd(st.pos, endPos).val THEN st
    ELSE IF ~HasHeaderAt(ins, st.pos) THEN [st EXCEPT !.err = "ModError"]
    ELSE load_world_loop(
            load_world_item(
                [st EXCEPT !.block = @ /\ st.pos < st.endBlockPos],
                ins[ItemAt(ins, st.pos)], ins, lf),
            ins, endPos, lf)

\* MobWorld.load_rec_group(ins, endPos) with ins at pos.
MobWorld_load_rec_group(self, ins, pos, endPos, lf) ==
    load_done(load_world_loop(
        [self |-> self, pos |-> pos, cell |-> None, block |-> FALSE,
         endBlockPos |-> 0, endSubblockPos |-> 0, cells |-> << >>,
         err |-> ""], ins, endPos, lf))

\* MobWorld(header, loadFactory, world, ins, True)
MobWorld_unpack(header, world, ins, pos, lf) ==
    MobWorld_load_rec_group(MobWorld_new(header, world), ins, pos,
                            pos + header.size - rec_header_size, lf)

--------------------------------------------------------------------------
(* MobWorlds.load_rec_group.  st holds self, pos, the locals world, header *)
(* and worlds, the counter self.orphansSkipped, and err.                   *)

\* The WRLD branch: a WRLD directly after a WRLD finishes the former.
load_worlds_world(st, item, lf) ==
    [st EXCEPT
        !.self.worldBlocks =
            IF st.header # None /\ recTypeOf(st.header.item) = "WRLD"
            THEN Append(@, MobWorld_new(RecHeader(st.header.item),
                                        st.world.rec))
            ELSE @,
        !.world = [rec |-> item.rec],
        !.worlds = IF lf.isFallout THEN (item.rec.fid :> item.rec) @@ @
                   ELSE @,
        !.header = [item |-> item],
        !.pos = @ + TokLen(item)]

\* Mutant of load_worlds_orphan: the group is skipped and not counted.
load_worlds_orphan_uncounted(st, header) ==
    [st EXCEPT !.pos = @ + header.size]

\* `if not world`: orphaned world records, skipped over.
load_worlds_orphan(st, header) ==
    [st EXCEPT !.pos = @ + header.size,
               !.orphansSkipped = @ + 1]

\* ... the world block of a children group (wb) is appended.
load_worlds_append(st, wb) ==
    IF wb.err # "" THEN [st EXCEPT !.pos = wb.pos, !.err = wb.err]
    ELSE [st EXCEPT !.self.worldBlocks = Append(@, wb.self),
                    !.pos = wb.pos, !.world = None]

\* The GRUP branch of a group of type 1, world being the local.
load_worlds_children(st, header, world, ins, lf) ==
    IF world = None THEN load_worlds_orphan([st EXCEPT !.world = None], header)
    ELSE IF header.label # world.rec.fid
    THEN [st EXCEPT !.world = world, !.err = "ModError"]
    ELSE load_worlds_append([st EXCEPT !.world = world],
            MobWorld_unpack(header, world.rec, ins,
                            st.pos + rec_header_size, lf))

load_worlds_grup(st, header, ins, lf) ==
    IF header.groupType # 1 THEN [st EXCEPT !.err = "ModError"]
    ELSE load_worlds_children(st, header,
            IF lf.isFallout
            THEN IF header.label \in DOMAIN st.worlds
                 THEN [rec |-> st.worlds[header.label]] ELSE None
            ELSE st.world,
            ins, lf)

load_worlds_item(st, item, ins, lf) ==
    IF recTypeOf(item) = st.self.label THEN load_worlds_world(st, item, lf)
    ELSE IF recTypeOf(item) = "GRUP"
    THEN load_worlds_grup([st EXCEPT !.header = [item |-> item]], item,
                          ins, lf)
    ELSE [st EXCEPT !.header = [item |-> item], !.err = "ModError"]

RECURSIVE load_worlds_loop(_, _, _, _)
load_worlds_loop(st, ins, endPos, lf) ==
    IF st.err # "" THEN st
    ELSE IF atEnd(st.pos, endPos).err # ""
    THEN [st EXCEPT !.err = atEnd(st.pos, endPos).err]
    ELSE IF atEnd(st.pos, endPos).val THEN st
    ELSE IF ~HasHeaderAt(ins, st.pos) THEN [st EXCEPT !.err = "ModError"]
    ELSE load_worlds_loop(
            load_worlds_item(st, ins[ItemAt(ins, st.pos)], ins, lf),
            ins, endPos, lf)

\* Mutant of load_worlds_last: the last WRLD without children is left out.
load_worlds_last_dropped(st) == st

\* After the loop: a last WRLD without children is finished.
load_worlds_last(st) ==
    IF st.err = "" /\ st.world # None
    THEN [st EXCEPT !.self.worldBlocks =
                Append(@, MobWorld_new(HeaderOf(st.header.item),
                                       st.world.rec))]
    ELSE st

\* MobWorlds.load_rec_group(ins, endPos) with ins at pos: self, pos, err
\* and the value of self.orphansSkipped.
MobWorlds_load_rec_group(self, ins, pos, endPos, lf) ==
    load_worlds_last(load_worlds_loop(
        [self |-> self, pos |-> pos, world |-> None, header |-> None,
         worlds |-> << >>, orphansSkipped |-> 0, err |-> ""],
        ins, endPos, lf))

\* MobBase.load(ins, do_unpack=True) of a top group whose payload is ins:
\* load_rec_group up to the group's end, then data = None and setChanged.
\* load is what load_rec_group gave back.
MobBase_load_unpack(load) ==
    IF load.err # "" THEN load
    ELSE [load EXCEPT !.self = setChanged([@ EXCEPT !.data = None])]

--------------------------------------------------------------------------
(* Specification SpecObj: one MobObjects group (the patch file's block)    *)
(* under setRecord, indexRecords, getRecord, keepRecords, merge_records,   *)
(* getSize and dump.                                                       *)

FidA1 == <<"A.esp", 1>>
FidA2 == <<"A.esp", 2>>
FidA3 == <<"A.esp", 3>>
FidX1 == <<"X.esp", 1>>

\* Records a caller hands to setRecord.
D1 == Rec(1, FidA1, "d1", FALSE, FALSE, 4, {}, {})
D2 == Rec(2, FidA2, "d2", FALSE, FALSE, 6, {}, {})
G1 == Rec(3, null_fid, "e1", TRUE, FALSE, 2, {}, {})
G2 == Rec(4, null_fid, "e2", TRUE, FALSE, 3, {}, {})
DestPool == {D1, D2, G1, G2}

\* Records of the plugins that are merged.
S1 == Rec(11, FidA1, "d1", FALSE, FALSE, 5, {}, {})
S3 == Rec(12, FidA3, "s3", FALSE, FALSE, 7, {}, {"X.esp"})
SG == Rec(13, null_fid, "e1", TRUE, FALSE, 1, {}, {})
SB == Rec(14, bad_form, "DarkPCB", FALSE, FALSE, 1, {}, {})
SI == Rec(15, FidA2, "d2", FALSE, TRUE, 1, {}, {})
SX == Rec(16, FidX1, "x1", FALSE, FALSE, 2, {"X.esp"}, {})
SrcPool == {S1, S3, SG, SB, SI, SX}

Header0 == TopGrupHeader(0, "NPC_", 0, 7)

\* Sequences without repetition over a pool, up to a length.
SeqsUpTo(pool, n) ==
    UNION {{s \in [1..k -> pool] : \A i, j \in 1..k : i # j => s[i] # s[j]}
           : k \in 0..n}

SrcGroups == {MobObjects(Header0, rs) : rs \in SeqsUpTo(SrcPool, MaxSrc)}

LoadSets == {{"Oblivion.esm", "A.esp"}, {"Oblivion.esm", "A.esp", "X.esp"}}

KeepSets == {{}, {FidA1}, {FidA1, FidA3, EidKey("e1")}, {null_fid, FidA2}}

ObjInit ==
    /\ dest = MobObjects(Header0, << >>)
    /\ src = None
    /\ mergeIds = {}
    /\ op = [name |-> "init"]
    /\ err = ""
    /\ out = None

ObjSetRecord ==
    /\ Len(dest.records) < MaxDest
    /\ \E record \in DestPool :
         \E r \in {setRecord(dest, record)} :
             /\ dest' = r.g
             /\ err' = r.err
             /\ op' = [name |-> "setRecord", record |-> record]
    /\ out' = None
    /\ UNCHANGED <<src, mergeIds>>

ObjIndexRecords ==
    /\ dest' = indexRecords(dest)
    /\ op' = [name |-> "indexRecords"]
    /\ err' = ""
    /\ out' = None
    /\ UNCHANGED <<src, mergeIds>>

ObjKeepRecords ==
    /\ \E p_keep_ids \in KeepSets :
         /\ dest' = keepRecords(dest, p_keep_ids)
         /\ op' = [name |-> "keepRecords", p_keep_ids |-> p_keep_ids]
    /\ err' = ""
    /\ out' = None
    /\ UNCHANGED <<src, mergeIds>>

ObjMergeRecords ==
    /\ src = None
    /\ \E block \in SrcGroups, loadSet \in LoadSets,
          iiSkipMerge \in BOOLEAN, doFilter \in BOOLEAN :
         \E r \in {MobObjects_merge_records(dest, block, loadSet, mergeIds,
                                             iiSkipMerge, doFilter)} :
             /\ dest' = r.self
             /\ src' = r.block
             /\ mergeIds' = r.mergeIds
             /\ err' = r.err
             /\ op' = [name |-> "merge_records", block |-> block,
                       loadSet |-> loadSet, iiSkipMerge |-> iiSkipMerge,
                       doFilter |-> doFilter]
    /\ out' = None

ObjDump ==
    /\ out = None
    /\ out' = [dump |-> MobObjects_dump(dest),
               getSize |-> MobObjects_getSize(dest)]
    /\ UNCHANGED <<dest, src, mergeIds, op, err>>

ObjNext ==
    \/ ObjSetRecord
    \/ ObjIndexRecords
    \/ ObjKeepRecords
    \/ ObjMergeRecords
    \/ ObjDump

SpecObj == ObjInit /\ [][ObjNext]_vars

--------------------------------------------------------------------------
(* Claims checked under SpecObj. *)

\* C4 (as claimed): after indexRecords(), looking up the key of any record
\* of the group (its FormID, or its editor id when it is keyed by editor id
\* and its FormID is (game master, 0)) returns that very record.
C4_IndexCorrectness ==
    op.name = "indexRecords" =>
        \A i \in 1..Len(dest.records) :
            getRecord(dest, record_id(dest.records[i])) = dest.records[i]

\* The records of `active` a plain merge copies by the claim's account: with
\* `skip` the FormIDs it leaves out.
Copied(active, skip) ==
    SelectSeq(active, LAMBDA r : r.fid \notin skip)

\* The destination list the claim describes: every former record whose FormID
\* occurs among `copied` replaced in place by a copy of that source record,
\* followed by copies of the source records with new FormIDs, in source order.
MergedList(former, copied) ==
    [i \in 1..Len(former) |->
        IF former[i].fid \in FidsOf(copied)
        THEN getTypeCopy(CHOOSE r \in {copied[j] : j \in 1..Len(copied)} :
                            r.fid = former[i].fid)
        ELSE former[i]]
    \o [j \in 1..Len(SelectSeq(copied, LAMBDA r : r.fid \notin FidsOf(former)))
          |-> getTypeCopy(SelectSeq(copied,
                            LAMBDA r : r.fid \notin FidsOf(former))[j])]

PlainMerge(o) ==
    o.name = "merge_records" /\ ~o.doFilter /\ ~o.iiSkipMerge

\* C9 (as claimed): with doFilter=false and iiSkipMerge=false the destination
\* becomes its former records, those whose FormID occurs among the source's
\* active records replaced in place, followed by the new ones in source
\* order, and mergeIds gains exactly the FormIDs of the source's active
\* records.
C9_MergeResultOriginal ==
    [][PlainMerge(op') =>
        /\ dest'.records =
              MergedList(dest.records, getActiveRecords(op'.block))
        /\ mergeIds' = mergeIds \cup FidsOf(getActiveRecords(op'.block))]_vars

NoEidKeyed(records) ==
    \A i \in 1..Len(records) : record_id(records[i]) = records[i].fid

\* C9 (amended): the same, for the source's active records other than the
\* DarkPCB record (Oblivion.esm, 0xA31D), which merge_records skips, when no
\* active source record is keyed by its editor id.
C9_MergeResult ==
    [][(PlainMerge(op') /\ NoEidKeyed(getActiveRecords(op'.block))) =>
        /\ err' = ""
        /\ dest'.records =
              MergedList(dest.records,
                         Copied(getActiveRecords(op'.block), {bad_form}))
        /\ mergeIds' = mergeIds \cup
              FidsOf(Copied(getActiveRecords(op'.block), {bad_form}))]_vars

\* The spec's scenario: {1, 2} merged with {1', 3} gives [1', 2, 3] and
\* mergeIds {1, 3}.
C9_Witness ==
    /\ PlainMerge(op)
    /\ op.block.records = <<S1, S3>>
    /\ dest.records = <<getTypeCopy(S1), D2, getTypeCopy(S3)>>
    /\ mergeIds = {FidA1, FidA3}

\* The source records that survive a merge by the claim's account: the
\* active ones, less those with a FormID in `skip`, after mergeFilter when
\* doFilter, whose masters then lie within loadSet; in source order.
Survivors(block, loadSet, doFilter, skip) ==
    SelectSeq([i \in 1..Len(Copied(getActiveRecords(block), skip)) |->
                  IF doFilter
                  THEN mergeFilter(Copied(getActiveRecords(block), skip)[i],
                                   loadSet)
                  ELSE Copied(getActiveRecords(block), skip)[i]],
              LAMBDA r : doFilter => updateMasters(r) \subseteq loadSet)

\* An index over exactly the records of a list, by FormID.
IndexedByFid(g) ==
    /\ DOMAIN g.id_records = FidsOf(g.records)
    /\ \A k \in DOMAIN g.id_records :
          /\ g.id_records[k].fid = k
          /\ \E i \in 1..Len(g.records) : g.records[i] = g.id_records[k]

\* C15 (as claimed): after merge_records the source's records are its
\* former non-ignored records that passed the filter (all of them when
\* doFilter=false), in their order, and its index is rebuilt over them,
\* with iiSkipMerge either way.
C15_SourceRewriteOriginal ==
    [][op'.name = "merge_records" =>
        /\ err' = ""
        /\ src'.records =
              Survivors(op'.block, op'.loadSet, op'.doFilter, {})
        /\ IndexedByFid(src')]_vars

\* C15 (amended): the same, for the source's non-ignored records other than
\* the DarkPCB record (Oblivion.esm, 0xA31D), which merge_records drops
\* from the source whatever doFilter is.
C15_SourceRewrite ==
    [][op'.name = "merge_records" =>
        /\ err' = ""
        /\ src'.records =
              Survivors(op'.block, op'.loadSet, op'.doFilter, {bad_form})
        /\ IndexedByFid(src')]_vars

\* An IIM merge with the merge filter that left one of two source records:
\* the one whose filterable reference was cut, not the one whose own master
\* is not loaded.
C15_Witness ==
    /\ op.name = "merge_records"
    /\ op.iiSkipMerge /\ op.doFilter
    /\ op.block.records = <<S3, SX>>
    /\ "X.esp" \notin op.loadSet
    /\ src.records = << mergeFilter(S3, op.loadSet) >>
    /\ dest.records = << >>

\* The key setRecord files a record under.
SetRecordKey(record) ==
    IF record.isKeyedByEid /\ record.fid = null_fid THEN EidKey(record.eid)
    ELSE record.fid

\* C26: setRecord keys a record by its editor id when it is keyed by editor
\* id and its FormID is (game master, 0), else by its FormID, and replaces
\* the record of that key or appends; so, whatever setRecord calls and index
\* invalidations (keepRecords, indexRecords) came before, the record list
\* never holds two records with the same key.
C26_UniqueKeys ==
    \A i, j \in 1..Len(dest.records) :
        SetRecordKey(dest.records[i]) = SetRecordKey(dest.records[j]) => i = j

--------------------------------------------------------------------------
(* Specification SpecBsb: getBsb applied to two cells (dest and src) that  *)
(* are both interior or both exterior; out holds the two keys.             *)

MaxCoord == 33

Coords == {<< >>} \cup {<<n>> : n \in (0 - MaxCoord)..MaxCoord}

CellFids == {0, 7, 123, 16777216 + 45}

BsbInit ==
    /\ \E interior \in BOOLEAN, fa, fb \in CellFids, px, py \in Coords :
         /\ dest = CellAttrs(fa, interior,
                             IF interior THEN << >> ELSE px,
                             IF interior THEN << >> ELSE py)
         /\ src = CellAttrs(fb, interior,
                            IF interior THEN << >> ELSE px,
                            IF interior THEN << >> ELSE py)
    /\ mergeIds = {}
    /\ op = [name |-> "init"]
    /\ err = ""
    /\ out = None

BsbGetBsb ==
    /\ out = None
    /\ out' = [a |-> getBsb(dest), b |-> getBsb(src)]
    /\ op' = [name |-> "getBsb"]
    /\ UNCHANGED <<dest, src, mergeIds, err>>

BsbNext == BsbGetBsb

SpecBsb == BsbInit /\ [][BsbNext]_vars

\* q is the floor of n / d.
IsFloor(q, n, d) == d * q <= n /\ n < d * (q + 1)

--------------------------------------------------------------------------
(* Specification SpecCont: one container of any of the six kinds (the      *)
(* patch file's block) under setRecord / setCell / setWorld, keepRecords,  *)
(* merge_records with a block of the same kind, and getSize with dump.     *)
(* An exception ends the run.                                              *)

\* Dispatch on the container's class.
Cont_merge_records(self, block, loadSet, mergeIds0, iiSkipMerge, doFilter) ==
    CASE self.kind = "MobObjects" ->
            MobObjects_merge_records(self, block, loadSet, mergeIds0,
                                     iiSkipMerge, doFilter)
      [] self.kind = "MobDials" ->
            MobDials_merge_records(self, block, loadSet, mergeIds0,
                                   iiSkipMerge, doFilter)
      [] self.kind = "MobCell" ->
            MobCell_merge_records(self, block, loadSet, mergeIds0,
                                  iiSkipMerge, doFilter)
      [] self.kind = "MobICells" ->
            MobCells_merge_records(self, block, loadSet, mergeIds0,
                                   iiSkipMerge, doFilter)
      [] self.kind = "MobWorld" ->
            MobWorld_merge_records(self, block, loadSet, mergeIds0,
                                   iiSkipMerge, doFilter)
      [] self.kind = "MobWorlds" ->
            MobWorlds_merge_records(self, block, loadSet, mergeIds0,
                                    iiSkipMerge, doFilter)

Cont_keepRecords(c, p_keep_ids) ==
    CASE c.kind = "MobObjects" ->
            [self |-> keepRecords(c, p_keep_ids),
             p_keep_ids |-> p_keep_ids, err |-> ""]
      [] c.kind = "MobDials" ->
            [self |-> MobDials_keepRecords(c, p_keep_ids),
             p_keep_ids |-> p_keep_ids, err |-> ""]
      [] c.kind = "MobCell" -> MobCell_keepRecords(c, p_keep_ids)
      [] c.kind = "MobICells" -> MobCells_keepRecords(c, p_keep_ids)
      [] c.kind = "MobWorld" -> MobWorld_keepRecords(c, p_keep_ids)
      [] c.kind = "MobWorlds" -> MobWorlds_keepRecords(c, p_keep_ids)

\* MobICells inherits MobBase.getSize.
MobICells_getSize(c) == MobBase_getSize(c)

\* getSize of any kind: val and err.
Cont_getSize(c) ==
    CASE c.kind = "MobBase" -> MobBase_getSize(c)
      [] c.kind = "MobObjects" -> [val |-> MobObjects_getSize(c), err |-> ""]
      [] c.kind = "MobDials" -> [val |-> MobDials_getSize(c), err |-> ""]
      [] c.kind = "MobCell" ->
            IF c.cell = None THEN [val |-> 0, err |-> "AttributeError"]
            ELSE [val |-> MobCell_getSize(c), err |-> ""]
      [] c.kind = "MobICells" -> MobICells_getSize(c)
      [] c.kind = "MobWorld" -> MobWorld_getSize(c)
      [] c.kind = "MobWorlds" -> MobWorlds_getSize(c)

\* dump of any kind: self, the tokens written and err.
Cont_dump(c) ==
    CASE c.kind = "MobBase" -> MobBase_dump(c)
      [] c.kind = "MobObjects" ->
            [self |-> c, stream |-> MobObjects_dump(c), err |-> ""]
      [] c.kind = "MobDials" ->
            [self |-> c, stream |-> MobDials_dump(c), err |-> ""]
      [] c.kind = "MobCell" ->
            IF c.cell = None
            THEN [self |-> c, stream |-> << >>, err |-> "AttributeError"]
            ELSE [self |-> c, stream |-> MobCell_dump(c), err |-> ""]
      [] c.kind = "MobICells" -> MobICells_dump(c)
      [] c.kind = "MobWorld" ->
            [self |-> MobWorld_dump(c).self,
             stream |-> MobWorld_dump(c).stream,
             err |-> MobWorld_dump(c).err]
      [] c.kind = "MobWorlds" -> MobWorlds_dump(c)

\* References, land and pathgrid records.
RefD == Rec(20, <<"A.esp", 21>>, "", FALSE, FALSE, 2, {}, {})
RefA == Rec(21, <<"A.esp", 21>>, "", FALSE, FALSE, 4, {}, {})
RefF == Rec(22, <<"A.esp", 22>>, "", FALSE, FALSE, 6, {}, {"X.esp"})
RefX == Rec(23, <<"A.esp", 23>>, "", FALSE, FALSE, 3, {"X.esp"}, {})
RefI == Rec(24, <<"A.esp", 24>>, "", FALSE, TRUE, 1, {"X.esp"}, {})
LandD == Rec(25, <<"A.esp", 25>>, "", FALSE, FALSE, 8, {}, {})
LandI == Rec(26, <<"A.esp", 25>>, "", FALSE, TRUE, 8, {"X.esp"}, {})
PgrdS == Rec(27, <<"A.esp", 27>>, "", FALSE, FALSE, 5, {}, {})
RefK == Rec(28, <<"A.esp", 28>>, "", FALSE, FALSE, 2, {}, {})
RefN == Rec(29, <<"A.esp", 29>>, "", FALSE, FALSE, 3, {}, {})

\* Cell records: interior ones and exterior ones with a grid position.
CellD1 == CellRec(Rec(30, <<"A.esp", 31>>, "c1", FALSE, FALSE, 3, {}, {}),
                  TRUE, << >>, << >>)
CellS1 == CellRec(Rec(31, <<"A.esp", 31>>, "c1", FALSE, FALSE, 5, {}, {}),
                  TRUE, << >>, << >>)
CellS2 == CellRec(Rec(32, <<"A.esp", 42>>, "c2", FALSE, FALSE, 2, {}, {}),
                  TRUE, << >>, << >>)
CellSX == CellRec(Rec(33, <<"A.esp", 53>>, "c3", FALSE, FALSE, 2, {"X.esp"}, {}),
                  TRUE, << >>, << >>)
ExtD1 == CellRec(Rec(35, <<"A.esp", 61>>, "x1", FALSE, FALSE, 3, {}, {}),
                 FALSE, <<-9>>, <<40>>)
ExtS1 == CellRec(Rec(36, <<"A.esp", 61>>, "x1", FALSE, FALSE, 4, {}, {}),
                 FALSE, <<-9>>, <<40>>)
ExtS2 == CellRec(Rec(37, <<"A.esp", 62>>, "x2", FALSE, FALSE, 2, {}, {}),
                 FALSE, <<-1>>, << >>)
ExtW == CellRec(Rec(38, <<"A.esp", 60>>, "xw", FALSE, FALSE, 2, {}, {}),
                FALSE, << >>, << >>)

CellHeader == GrupHeader(0, 0, 6, 7)

\* Cell blocks of a patch file and of a merged plugin.
CbD0 == MobCell(CellHeader, CellD1, << >>, << >>, << >>, None, None)
CbD1 == MobCell(CellHeader, CellD1, << >>, << RefD >>, << >>, None, None)
CbD2 == MobCell(CellHeader, CellD1, << RefD >>, << >>, << >>, LandD, None)
CbS1 == MobCell(CellHeader, CellS1, << RefA >>, << RefF, RefX >>, << >>,
                None, PgrdS)
CbS2 == MobCell(CellHeader, CellS1, << >>, << RefI >>, << RefA >>, LandI, None)
CbS3 == MobCell(CellHeader, CellS2, << RefA >>, << >>, << >>, None, None)
CbSX == MobCell(CellHeader, CellSX, << >>, << RefA >>, << >>, None, None)
CbD3 == MobCell(CellHeader, CellD1, << RefK, RefD >>, << RefF >>, << >>,
                None, None)
CbS4 == MobCell(CellHeader, CellS1, << RefN, RefA, RefX >>, << RefI >>,
                << RefN >>, None, None)
XbD1 == MobCell(CellHeader, ExtD1, << >>, << RefD >>, << >>, None, None)
XbS1 == MobCell(CellHeader, ExtS1, << RefA >>, << >>, << >>, None, None)
XbS2 == MobCell(CellHeader, ExtS2, << >>, << RefF >>, << >>, None, None)
XbW == MobCell(CellHeader, ExtW, << >>, << RefA >>, << >>, None, None)

\* World and road records.
WorldD1 == Rec(40, <<"A.esp", 71>>, "w1", FALSE, FALSE, 3, {}, {})
WorldS1 == Rec(41, <<"A.esp", 71>>, "w1", FALSE, FALSE, 4, {}, {})
WorldS2 == Rec(42, <<"A.esp", 72>>, "w2", FALSE, FALSE, 2, {}, {})
WorldSX == Rec(43, <<"A.esp", 73>>, "w3", FALSE, FALSE, 2, {"X.esp"}, {})
RoadD == Rec(44, <<"A.esp", 75>>, "", FALSE, FALSE, 2, {}, {})
RoadS == Rec(45, <<"A.esp", 75>>, "", FALSE, FALSE, 3, {}, {"X.esp"})

WorldHeader == GrupHeader(0, 0, 1, 7)
WbD0 == MobWorld(WorldHeader, WorldD1, None, None, << >>)
WbD1 == MobWorld(WorldHeader, WorldD1, RoadD, None, << XbD1 >>)
WbS1 == MobWorld(WorldHeader, WorldS1, RoadS, XbW, << XbS1 >>)
WbS2 == MobWorld(WorldHeader, WorldS1, None, None, << XbS2 >>)
WbS3 == MobWorld(WorldHeader, WorldS2, None, None, << >>)
WbSX == MobWorld(WorldHeader, WorldSX, None, None, << >>)

\* DIAL records with their INFO children.
InfoD == Rec(50, <<"A.esp", 81>>, "", FALSE, FALSE, 2, {}, {})
InfoS == Rec(51, <<"A.esp", 81>>, "", FALSE, FALSE, 3, {}, {})
InfoN == Rec(52, <<"A.esp", 82>>, "", FALSE, FALSE, 1, {}, {"X.esp"})
InfoX == Rec(53, <<"A.esp", 83>>, "", FALSE, FALSE, 1, {"X.esp"}, {})
DialD == DialRec(D1, << InfoD >>)
DialS == DialRec(S1, << InfoS, InfoN, InfoX >>)
DialN == DialRec(S3, << InfoN >>)
DialE == DialRec(SX, << InfoS >>)

HeaderD == TopGrupHeader(0, "DIAL", 0, 7)
HeaderC == TopGrupHeader(0, "CELL", 0, 7)
HeaderW == TopGrupHeader(0, "WRLD", 0, 7)

\* A container of a top group that was loaded without unpacking: its
\* children lists are empty, data holds the payload.
Lazy(c, payload) ==
    [MobBase_load([c EXCEPT !.changed = FALSE,
                            !.size = rec_header_size + StreamLen(payload),
                            !.header.size = rec_header_size + StreamLen(payload)],
                  payload)
        EXCEPT !.changed = FALSE]

\* The containers the run starts with.
ContDests ==
    { MobObjects(Header0, << >>), MobObjects(Header0, << D1, D2 >>),
      Lazy(MobObjects(Header0, << >>), << RecToken(D1) >>),
      MobDials(HeaderD, << >>), MobDials(HeaderD, << DialD >>),
      CbD0, CbD1, CbD2, CbD3,
      MobCells("MobICells", HeaderC, << >>),
      MobCells("MobICells", HeaderC, << CbD1 >>),
      Lazy(MobCells("MobICells", HeaderC, << >>), << RecToken(CellD1) >>),
      WbD0, WbD1,
      MobWorlds(HeaderW, << >>), MobWorlds(HeaderW, << WbD1 >>),
      Lazy(MobWorlds(HeaderW, << >>), << RecToken(WorldD1) >>) }

\* The blocks of merged plugins, by kind.
ContSources(kind) ==
    CASE kind = "MobObjects" ->
            { MobObjects(Header0, << S1, S3 >>), MobObjects(Header0, << SX, SI >>),
              MobObjects(Header0, << SG >>) }
      [] kind = "MobDials" ->
            { MobDials(HeaderD, << DialS >>), MobDials(HeaderD, << DialN, DialE >>) }
      [] kind = "MobCell" -> { CbS1, CbS2, CbS4, CbSX }
      [] kind = "MobICells" ->
            { MobCells("MobICells", HeaderC, << CbS1 >>),
              MobCells("MobICells", HeaderC, << CbS2 >>),
              MobCells("MobICells", HeaderC, << CbS3 >>),
              MobCells("MobICells", HeaderC, << CbSX >>) }
      [] kind = "MobWorld" -> { WbS1, WbS2 }
      [] kind = "MobWorlds" ->
            { MobWorlds(HeaderW, << WbS1 >>), MobWorlds(HeaderW, << WbS2 >>),
              MobWorlds(HeaderW, << WbS3 >>), MobWorlds(HeaderW, << WbSX >>) }

ContKeepSets ==
    { {}, {<<"A.esp", 21>>}, {FidA1, <<"A.esp", 81>>},
      {<<"A.esp", 31>>, <<"A.esp", 61>>, <<"A.esp", 71>>, <<"A.esp", 75>>} }

ContMergeIds == { {}, {<<"A.esp", 99>>} }

ContInit ==
    /\ dest \in ContDests
    /\ src = None
    /\ mergeIds \in ContMergeIds
    /\ op = [name |-> "init"]
    /\ err = ""
    /\ out = None

\* setRecord on a MobObjects or MobDials.
ContSetRecord ==
    /\ err = ""
    /\ dest.kind \in {"MobObjects", "MobDials"}
    /\ Len(dest.records) < MaxDest
    /\ \E record \in (IF dest.kind = "MobObjects" THEN {S1, G1}
                       ELSE {DialS, DialN}) :
         \E r \in {setRecord(dest, record)} :
             /\ dest' = r.g
             /\ err' = r.err
             /\ op' = [name |-> "setRecord", before |-> dest,
                       record |-> record]
    /\ out' = None
    /\ UNCHANGED <<src, mergeIds>>

\* setCell on a MobICells or MobWorld.
ContSetCell ==
    /\ err = ""
    /\ dest.kind \in {"MobICells", "MobWorld"}
    /\ Len(dest.cellBlocks) < MaxDest
    /\ \E cell \in (IF dest.kind = "MobICells" THEN {CellS1, CellS2}
                     ELSE {ExtS1, ExtS2}) :
         \E r \in {setCell(dest, cell)} :
             /\ dest' = r.self
             /\ err' = r.err
             /\ op' = [name |-> "setCell", before |-> dest, cell |-> cell]
    /\ out' = None
    /\ UNCHANGED <<src, mergeIds>>

\* setWorld on a MobWorlds.
ContSetWorld ==
    /\ err = ""
    /\ dest.kind = "MobWorlds"
    /\ Len(dest.worldBlocks) < MaxDest
    /\ \E world \in {WorldS1, WorldS2} :
         \E r \in {setWorld(dest, world, None)} :
             /\ dest' = r.self
             /\ err' = r.err
             /\ op' = [name |-> "setWorld", before |-> dest, world |-> world]
    /\ out' = None
    /\ UNCHANGED <<src, mergeIds>>

ContKeepRecords ==
    /\ err = ""
    /\ \E p_keep_ids \in ContKeepSets :
         \E r \in {Cont_keepRecords(dest, p_keep_ids)} :
             /\ dest' = r.self
             /\ err' = r.err
             /\ op' = [name |-> "keepRecords", before |-> dest,
                       p_keep_ids |-> p_keep_ids, kept |-> r.p_keep_ids]
    /\ out' = None
    /\ UNCHANGED <<src, mergeIds>>

ContMergeRecords ==
    /\ err = ""
    /\ src = None
    /\ \E block \in ContSources(dest.kind), loadSet \in LoadSets,
          iiSkipMerge \in BOOLEAN, doFilter \in BOOLEAN :
         \E r \in {Cont_merge_records(dest, block, loadSet, mergeIds,
                                       iiSkipMerge, doFilter)} :
             /\ dest' = r.self
             /\ src' = r.block
             /\ mergeIds' = r.mergeIds
             /\ err' = r.err
             /\ op' = [name |-> "merge_records", before |-> dest,
                       block |-> block, loadSet |-> loadSet,
                       mergeIds |-> mergeIds,
                       iiSkipMerge |-> iiSkipMerge, doFilter |-> doFilter]
    /\ out' = None

\* getSize, then dump.
ContDump ==
    /\ err = ""
    /\ op.name # "dump"
    /\ \E d \in {Cont_dump(dest)} :
         /\ dest' = d.self
         /\ err' = d.err
         /\ out' = [getSize |-> Cont_getSize(dest), dump |-> d.stream]
    /\ op' = [name |-> "dump", before |-> dest, mutated |-> op.name # "init"]
    /\ UNCHANGED <<src, mergeIds>>

ContNext ==
    \/ ContSetRecord
    \/ ContSetCell
    \/ ContSetWorld
    \/ ContKeepRecords
    \/ ContMergeRecords
    \/ ContDump

SpecCont == ContInit /\ [][ContNext]_vars

--------------------------------------------------------------------------
(* Claims checked under SpecCont. *)

\* The children of a container, without the indexes and the base fields.
StripCell(cb) ==
    <<cb.cell, cb.persistent, cb.temp, cb.distant, cb.land, cb.pgrd>>
StripCells(cellBlocks) ==
    [i \in 1..Len(cellBlocks) |-> StripCell(cellBlocks[i])]
StripWorld(w) ==
    <<w.world, w.road,
      IF w.worldCellBlock = None THEN << >>
      ELSE << StripCell(w.worldCellBlock) >>,
      StripCells(w.cellBlocks)>>
Children(c) ==
    CASE c.kind \in {"MobObjects", "MobDials"} -> c.records
      [] c.kind = "MobCell" -> StripCell(c)
      [] c.kind = "MobICells" -> StripCells(c.cellBlocks)
      [] c.kind = "MobWorld" -> StripWorld(c)
      [] c.kind = "MobWorlds" ->
            [i \in 1..Len(c.worldBlocks) |-> StripWorld(c.worldBlocks[i])]

\* Every record a container holds, as a list.
OneOrNone(record) == IF record = None THEN << >> ELSE << record >>
RECURSIVE Flatten(_)
Flatten(lists) ==
    IF lists = << >> THEN << >> ELSE Head(lists) \o Flatten(Tail(lists))
RecordsOfCell(cb) ==
    OneOrNone(cb.cell) \o cb.persistent \o cb.temp \o cb.distant
    \o OneOrNone(cb.land) \o OneOrNone(cb.pgrd)
RecordsOfCells(cellBlocks) ==
    Flatten([i \in 1..Len(cellBlocks) |-> RecordsOfCell(cellBlocks[i])])
RecordsOfWorld(w) ==
    OneOrNone(w.world) \o OneOrNone(w.road)
    \o (IF w.worldCellBlock = None THEN << >>
        ELSE RecordsOfCell(w.worldCellBlock))
    \o RecordsOfCells(w.cellBlocks)
RecordsOf(c) ==
    CASE c.kind = "MobObjects" -> c.records
      [] c.kind = "MobDials" ->
            Flatten([i \in 1..Len(c.records) |->
                        << c.records[i] >> \o c.records[i].infos])
      [] c.kind = "MobCell" -> RecordsOfCell(c)
      [] c.kind = "MobICells" -> RecordsOfCells(c.cellBlocks)
      [] c.kind = "MobWorld" -> RecordsOfWorld(c)
      [] c.kind = "MobWorlds" ->
            Flatten([i \in 1..Len(c.worldBlocks) |->
                        RecordsOfWorld(c.worldBlocks[i])])

\* C2 (as claimed): after any sequence of mutations, for every container
\* kind, getSize succeeds and the number of bytes dump writes equals the
\* value getSize returns.
C2_SizeByteConsistency ==
    (op.name = "dump" /\ op.mutated) =>
        /\ out.getSize.err = ""
        /\ err = ""
        /\ StreamLen(out.dump) = out.getSize.val

\* C3 (as claimed): getSize never fails, on a changed container of any
\* kind in particular, and on an unchanged container it returns the size
\* cached from its header.
C3_GetSizeNeverFails ==
    op.name = "dump" =>
        /\ out.getSize.err = ""
        /\ ~op.before.changed => out.getSize.val = op.before.size

\* The master set of a record after mergeFilter(loadSet) is within loadSet.
Sound(record, loadSet) ==
    updateMasters(mergeFilter(record, loadSet)) \subseteq loadSet

\* C5 (as claimed): after merge_records with doFilter=true, every record
\* left in the source container, and every copy put into the destination,
\* has a master set (after mergeFilter) within loadSet.
C5_FilterSoundness ==
    (op.name = "merge_records" /\ op.doFilter /\ err = "") =>
        /\ \A i \in 1..Len(RecordsOf(src)) :
              Sound(RecordsOf(src)[i], op.loadSet)
        /\ \A i \in 1..Len(RecordsOf(dest)) :
              RecordsOf(dest)[i].copy => Sound(RecordsOf(dest)[i], op.loadSet)

\* C6: a call of merge_records with iiSkipMerge=true, on a container of
\* any of the six kinds and with doFilter either way, leaves mergeIds as it
\* was before the call (also when the call raises).
C6_IIMNonRecording ==
    (op.name = "merge_records" /\ op.iiSkipMerge) => mergeIds = op.mergeIds

\* An IIM merge with the merge filter, of a world group whose source holds
\* records a plain merge would record, returned with mergeIds untouched.
C6_Witness ==
    /\ op.name = "merge_records"
    /\ op.iiSkipMerge
    /\ op.doFilter
    /\ op.before.kind = "MobWorlds"
    /\ op.block.worldBlocks # << >>
    /\ op.mergeIds # {}
    /\ mergeIds = op.mergeIds
    /\ err = ""

\* C7 (as claimed): merge_records with iiSkipMerge=true completes without
\* error and leaves the destination's children exactly as they were.
C7_IIMCopiesNothing ==
    (op.name = "merge_records" /\ op.iiSkipMerge) =>
        /\ err = ""
        /\ Children(dest) = Children(op.before)

\* The bytes a bucket of a cell block takes: nothing when it has no
\* member, else a group header and, per member, a header and its data.
C10_BucketSize(members) ==
    IF members = << >> THEN 0
    ELSE rec_header_size
         + SumSeq([i \in 1..Len(members) |->
                      rec_header_size + members[i].size])

\* The members of the temporary bucket: land and pathgrid count.
C10_TempMembers(cb) == cb.temp \o OneOrNone(cb.land) \o OneOrNone(cb.pgrd)

C10_ExpectedSize(cb) ==
    rec_header_size + cb.cell.size
    + (IF cb.persistent = << >> /\ C10_TempMembers(cb) = << >>
          /\ cb.distant = << >>
       THEN 0 ELSE rec_header_size)
    + C10_BucketSize(cb.persistent)
    + C10_BucketSize(C10_TempMembers(cb))
    + C10_BucketSize(cb.distant)

\* The number of group headers of a type in a stream.
C10_Headers(stream, groupType) ==
    Len(SelectSeq(SelectSeq(stream, LAMBDA tok : tok.t = "GRUP"),
                  LAMBDA tok : tok.groupType = groupType))

\* C10: getSize of a cell block is header size + cell record size + one
\* children-group header if a bucket is non-empty + per non-empty bucket a
\* group header and (header size + record size) per member, land and
\* pathgrid counting as temporary members; dump writes a bucket-group
\* header for exactly the non-empty buckets and as many bytes as getSize
\* says.
C10_CellBlockSize ==
    (op.name = "dump" /\ op.before.kind = "MobCell" /\ err = "") =>
        /\ out.getSize.val = C10_ExpectedSize(op.before)
        /\ StreamLen(out.dump) = C10_ExpectedSize(op.before)
        /\ C10_Headers(out.dump, 8)
                = (IF op.before.persistent = << >> THEN 0 ELSE 1)
        /\ C10_Headers(out.dump, 9)
                = (IF C10_TempMembers(op.before) = << >> THEN 0 ELSE 1)
        /\ C10_Headers(out.dump, 10)
                = (IF op.before.distant = << >> THEN 0 ELSE 1)

\* A dumped cell block with an empty persistent bucket and a non-empty
\* temporary bucket.
C10_Witness ==
    /\ op.name = "dump"
    /\ op.before.kind = "MobCell"
    /\ err = ""
    /\ op.before.persistent = << >>
    /\ op.before.temp # << >>
    /\ C10_Headers(out.dump, 9) = 1

\* C12: after setRecord, keepRecords or merge_records returned, the
\* container operated on has changed = true, whatever it was before.
C12_MutationSetsChanged ==
    (op.name \in {"setRecord", "keepRecords", "merge_records"} /\ err = "")
        => dest.changed

\* Whether a container holds parsed children.
HasParsedChildren(c) ==
    CASE c.kind \in {"MobObjects", "MobDials"} -> c.records # << >>
      [] c.kind = "MobCell" -> HasChildren(c)
      [] c.kind = "MobICells" -> c.cellBlocks # << >>
      [] c.kind = "MobWorld" ->
            c.cellBlocks # << >> \/ c.road # None \/ c.worldCellBlock # None
      [] c.kind = "MobWorlds" -> c.worldBlocks # << >>

\* C13: after setRecord, keepRecords or merge_records a top group is
\* either raw (changed = false, raw bytes held, no parsed children) or
\* parsed (changed = true, no raw bytes held); a
\* mutation never takes it from parsed back to raw, and keepRecords on a
\* raw group whose keep set names a record inside the raw bytes does not
\* lose that record.
C13_RawParsedExclusive ==
    [][/\ (/\ dest'.kind \in {"MobObjects", "MobDials", "MobICells", "MobWorlds"}
           /\ op'.name \in {"setRecord", "keepRecords", "merge_records"})
          => /\ dest'.changed => dest'.data = None
             /\ ~dest'.changed =>
                    (dest'.data # None /\ ~HasParsedChildren(dest'))
       /\ dest.changed => dest'.changed
       /\ (/\ op'.name = "keepRecords"
           /\ dest.kind = "MobObjects"
           /\ ~dest.changed
           /\ dest.data = RawData(<< RecToken(D1) >>)
           /\ FidA1 \in op'.p_keep_ids)
          => (dest'.records = << D1 >> \/ dest'.data = dest.data)]_vars

\* The children of a cell block whose FormID is in K.
C16_Retained(cb, K) ==
    [persistent |-> SelectSeq(cb.persistent, LAMBDA r : r.fid \in K),
     temp |-> SelectSeq(cb.temp, LAMBDA r : r.fid \in K),
     distant |-> SelectSeq(cb.distant, LAMBDA r : r.fid \in K),
     land |-> IF cb.land # None /\ cb.land.fid \in K THEN cb.land ELSE None,
     pgrd |-> IF cb.pgrd # None /\ cb.pgrd.fid \in K THEN cb.pgrd ELSE None]

\* A cell block pins its cell: one of its children is retained.
C16_Pins(cb, K) == HasChildren(C16_Retained(cb, K))

\* The children of a cell block as they are held.
C16_ChildrenOf(cb) ==
    [persistent |-> cb.persistent, temp |-> cb.temp, distant |-> cb.distant,
     land |-> cb.land, pgrd |-> cb.pgrd]

\* The cell blocks of a list that are retained: those whose cell's FormID
\* is in K or pinned, each with its retained children.
C16_Cells(cellBlocks, K) ==
    [i \in 1..Len(SelectSeq(cellBlocks,
                    LAMBDA cb : cb.cell.fid \in K \/ C16_Pins(cb, K))) |->
        << SelectSeq(cellBlocks,
              LAMBDA cb : cb.cell.fid \in K \/ C16_Pins(cb, K))[i].cell,
           C16_Retained(SelectSeq(cellBlocks,
              LAMBDA cb : cb.cell.fid \in K \/ C16_Pins(cb, K))[i], K) >>]

C16_Held(cellBlocks) ==
    [i \in 1..Len(cellBlocks) |->
        << cellBlocks[i].cell, C16_ChildrenOf(cellBlocks[i]) >>]

\* The FormIDs the cell blocks of a list add to K.
C16_CellPins(cellBlocks, K) ==
    {cellBlocks[i].cell.fid :
        i \in {j \in 1..Len(cellBlocks) : C16_Pins(cellBlocks[j], K)}}

\* The world cell block of a WorldBlock, as a list of none or one.
C16_WorldCell(w) ==
    IF w.worldCellBlock = None THEN << >> ELSE << w.worldCellBlock >>

\* C16: after keepRecords(K) on an interior cell container or a WorldBlock,
\* a reference, land or pathgrid is retained iff its FormID is in K; a cell
\* block adds its cell's FormID to K iff one of its children is retained and
\* is retained iff its cell's FormID is then in K; the road is retained iff
\* its FormID is in K; and the WorldBlock adds its world's FormID to K iff
\* the road, the world cell or a cell block is retained.
C16_ParentPinning ==
    (/\ op.name = "keepRecords"
     /\ op.before.kind \in {"MobICells", "MobWorld"}
     /\ err = "") =>
        /\ C16_Held(dest.cellBlocks)
              = C16_Cells(op.before.cellBlocks, op.p_keep_ids)
        /\ op.before.kind = "MobICells" =>
              op.kept = op.p_keep_ids
                        \cup C16_CellPins(op.before.cellBlocks, op.p_keep_ids)
        /\ op.before.kind = "MobWorld" =>
              /\ dest.road = KeepOne(op.before.road, op.p_keep_ids)
              /\ C16_Held(C16_WorldCell(dest))
                    = C16_Cells(C16_WorldCell(op.before), op.p_keep_ids)
              /\ op.kept = op.p_keep_ids
                    \cup C16_CellPins(op.before.cellBlocks, op.p_keep_ids)
                    \cup C16_CellPins(C16_WorldCell(op.before), op.p_keep_ids)
                    \cup (IF dest.road # None \/ dest.worldCellBlock # None
                             \/ dest.cellBlocks # << >>
                          THEN {dest.world.fid} ELSE {})

\* keepRecords with a keep set that names a reference but not its cell: the
\* reference stays, the cell's FormID is added and the cell block stays.
C16_Witness ==
    /\ op.name = "keepRecords"
    /\ op.before.kind = "MobICells"
    /\ err = ""
    /\ op.before.cellBlocks = << CbD1 >>
    /\ op.p_keep_ids = {RefD.fid}
    /\ op.kept = {RefD.fid, CellD1.fid}
    /\ Len(dest.cellBlocks) = 1
    /\ dest.cellBlocks[1].temp = << RefD >>

\* The blocks of a cell container or a WorldGroup.
BlocksOf(c) == IF c.kind = "MobWorlds" THEN c.worldBlocks ELSE c.cellBlocks

\* The record a block is of: the cell of a cell block, the world of a world
\* block.
OwnerOf(b) == IF b.kind = "MobWorld" THEN b.world ELSE b.cell

\* The masters of everything a source block holds.
BlockMasters(b) ==
    IF b.kind = "MobWorld" THEN MobWorld_updateMasters(b).masters
    ELSE MobCell_updateMasters(b).masters

\* blocks[i] is among the blocks after, told by the object its owner is.
Survives(b, after) ==
    \E j \in 1..Len(after) : OwnerOf(after[j]).oid = OwnerOf(b).oid

MergeFiltered(list, o) ==
    [i \in 1..Len(list) |->
        IF o.doFilter THEN mergeFilter(list[i], o.loadSet) ELSE list[i]]

ListSurvivors(list, o) ==
    SelectSeq(MergeFiltered(list, o),
              LAMBDA r : /\ ~r.ignored
                         /\ o.doFilter => updateMasters(r) \subseteq o.loadSet)

NewSurvivors(before, surv) ==
    SelectSeq(surv, LAMBDA r : r.fid \notin FidsOf(before))

\* after is before with the entries of a surviving FormID overwritten in
\* place by a copy of the survivor, followed by copies of the survivors of
\* other FormIDs in source order.
KeyedOverwrite(before, after, surv) ==
    /\ Len(after) = Len(before) + Len(NewSurvivors(before, surv))
    /\ \A i \in 1..Len(before) :
          IF before[i].fid \in FidsOf(surv)
          THEN \E k \in 1..Len(surv) :
                  /\ surv[k].fid = before[i].fid
                  /\ after[i] = getTypeCopy(surv[k])
          ELSE after[i] = before[i]
    /\ \A j \in 1..Len(NewSurvivors(before, surv)) :
          after[Len(before) + j] = getTypeCopy(NewSurvivors(before, surv)[j])

ListAttrs == {"temp", "persistent", "distant"}

\* C24: merge_records of a CellBlock with iiSkipMerge false overwrites, in
\* each of the three lists, the destination entry of a surviving source
\* record's FormID by a copy at the same position, appends copies of the
\* survivors of new FormIDs, leaves the other entries where they are, and
\* adds the FormID of every copied record to mergeIds.
C24_KeyedOverwrite ==
    (/\ op.name = "merge_records"
     /\ dest.kind = "MobCell"
     /\ ~op.iiSkipMerge
     /\ err = "")
    => \A attr \in ListAttrs :
          /\ KeyedOverwrite(op.before[attr], dest[attr],
                            ListSurvivors(op.block[attr], op))
          /\ FidsOf(ListSurvivors(op.block[attr], op)) \subseteq mergeIds

\* A merge that overwrote the second persistent entry, left the first one
\* alone and appended a new one.
C24_Witness ==
    /\ op.name = "merge_records"
    /\ dest.kind = "MobCell"
    /\ ~op.iiSkipMerge
    /\ err = ""
    /\ Len(op.before.persistent) = 2
    /\ Len(dest.persistent) > 2
    /\ dest.persistent[1] = op.before.persistent[1]
    /\ dest.persistent[2] = getTypeCopy(RefA)
    /\ dest.persistent[3] = getTypeCopy(RefN)

--------------------------------------------------------------------------
(* Specification SpecFids: an ObjectGroup, an interior cell container or a *)
(* WorldGroup under indexRecords, setRecord / setCell / setWorld,          *)
(* keepRecords, merge_records and convertFids.  Records are added and      *)
(* merged while the FormIDs are in long form, as the patch file does.      *)

FidDests ==
    { MobObjects(Header0, << >>), MobObjects(Header0, << D1, D2 >>),
      MobCells("MobICells", HeaderC, << >>),
      MobCells("MobICells", HeaderC, << CbD1 >>),
      MobWorlds(HeaderW, << >>), MobWorlds(HeaderW, << WbD1 >>) }

FidSources(kind) ==
    CASE kind = "MobObjects" -> { MobObjects(Header0, << S1, S3 >>) }
      [] kind = "MobICells" -> { MobCells("MobICells", HeaderC, << CbS3 >>) }
      [] kind = "MobWorlds" -> { MobWorlds(HeaderW, << WbS3 >>) }

\* The FormIDs of the direct children of a container.
ChildFids(c) ==
    CASE c.kind = "MobObjects" -> FidsOf(c.records)
      [] c.kind = "MobICells" ->
            {c.cellBlocks[i].cell.fid : i \in 1..Len(c.cellBlocks)}
      [] c.kind = "MobWorlds" ->
            {c.worldBlocks[i].world.fid : i \in 1..Len(c.worldBlocks)}

NumChildren(c) ==
    CASE c.kind = "MobObjects" -> Len(c.records)
      [] c.kind = "MobICells" -> Len(c.cellBlocks)
      [] c.kind = "MobWorlds" -> Len(c.worldBlocks)

AllLong(c) == \A fid \in ChildFids(c) : IsLongFid(fid)

FidInit ==
    /\ dest \in FidDests
    /\ src = None
    /\ mergeIds = {}
    /\ op = [name |-> "init"]
    /\ err = ""
    /\ out = None

FidIndexRecords ==
    /\ err = ""
    /\ \E r \in {CASE dest.kind = "MobObjects" ->
                        [self |-> indexRecords(dest), err |-> ""]
                   [] dest.kind = "MobICells" -> MobCells_indexRecords(dest)
                   [] dest.kind = "MobWorlds" -> MobWorlds_indexRecords(dest)} :
         /\ dest' = r.self
         /\ err' = r.err
    /\ op' = [name |-> "indexRecords"]
    /\ UNCHANGED <<src, mergeIds, out>>

\* setRecord, setCell or setWorld, by the kind of the container.
FidSetChild ==
    /\ err = ""
    /\ AllLong(dest)
    /\ NumChildren(dest) < MaxDest
    /\ \E r \in (CASE dest.kind = "MobObjects" ->
                        {[self |-> setRecord(dest, x).g,
                          err |-> setRecord(dest, x).err] : x \in {S1, S3}}
                   [] dest.kind = "MobICells" ->
                        {setCell(dest, x) : x \in {CellS1, CellS2}}
                   [] dest.kind = "MobWorlds" ->
                        {setWorld(dest, x, None) : x \in {WorldS1, WorldS2}}) :
         /\ dest' = r.self
         /\ err' = r.err
    /\ op' = [name |-> "setChild"]
    /\ UNCHANGED <<src, mergeIds, out>>

FidKeepRecords ==
    /\ err = ""
    /\ AllLong(dest)
    /\ \E p_keep_ids \in ContKeepSets :
         \E r \in {Cont_keepRecords(dest, p_keep_ids)} :
             /\ dest' = r.self
             /\ err' = r.err
    /\ op' = [name |-> "keepRecords"]
    /\ UNCHANGED <<src, mergeIds, out>>

FidMergeRecords ==
    /\ err = ""
    /\ src = None
    /\ AllLong(dest)
    /\ \E block \in FidSources(dest.kind), iiSkipMerge \in BOOLEAN :
         \E r \in {Cont_merge_records(dest, block,
                                       {"Oblivion.esm", "A.esp", "X.esp"},
                                       mergeIds, iiSkipMerge, FALSE)} :
             /\ dest' = r.self
             /\ src' = r.block
             /\ mergeIds' = r.mergeIds
             /\ err' = r.err
    /\ op' = [name |-> "merge_records"]
    /\ out' = out

FidConvertFids ==
    /\ err = ""
    /\ \E toLong \in BOOLEAN :
         /\ dest' = (CASE dest.kind = "MobObjects" ->
                            MobObjects_convertFids(dest, toLong)
                       [] dest.kind = "MobICells" ->
                            MobCells_convertFids(dest, toLong)
                       [] dest.kind = "MobWorlds" ->
                            MobWorlds_convertFids(dest, toLong))
         /\ op' = [name |-> "convertFids", toLong |-> toLong]
    /\ UNCHANGED <<src, mergeIds, err, out>>

FidNext ==
    \/ FidIndexRecords
    \/ FidSetChild
    \/ FidKeepRecords
    \/ FidMergeRecords
    \/ FidConvertFids

SpecFids == FidInit /\ [][FidNext]_vars

\* The index of a container: a map from keys to children (MobObjects) or
\* to the positions of children (cell blocks, world blocks).
IndexOf(c) ==
    CASE c.kind = "MobObjects" -> c.id_records
      [] c.kind = "MobICells" -> c.id_cellBlock
      [] c.kind = "MobWorlds" -> c.id_worldBlocks

\* The index maps exactly the current FormIDs of the current children to
\* those children.
IndexExact(c) ==
    /\ DOMAIN IndexOf(c) = ChildFids(c)
    /\ \A k \in DOMAIN IndexOf(c) :
          CASE c.kind = "MobObjects" ->
                  /\ IndexOf(c)[k].fid = k
                  /\ \E i \in 1..Len(c.records) : c.records[i] = IndexOf(c)[k]
            [] c.kind = "MobICells" ->
                  /\ IndexOf(c)[k] \in 1..Len(c.cellBlocks)
                  /\ c.cellBlocks[IndexOf(c)[k]].cell.fid = k
            [] c.kind = "MobWorlds" ->
                  /\ IndexOf(c)[k] \in 1..Len(c.worldBlocks)
                  /\ c.worldBlocks[IndexOf(c)[k]].world.fid = k

\* C14: after any sequence of indexRecords, setRecord / setCell / setWorld,
\* keepRecords, merge_records and convertFids, the FormID index of an
\* ObjectGroup, a cell container and a WorldGroup is empty or maps exactly
\* the current FormIDs of the current children to those children.
C14_IndexFreshness ==
    err = "" => (DOMAIN IndexOf(dest) = {} \/ IndexExact(dest))

--------------------------------------------------------------------------
(* Specification SpecDial: a DialogueGroup of the patch file, a set of     *)
(* pending merge ids, and one updateRecords from a source block whose      *)
(* FormIDs are in short form.                                              *)

DialD2 == DialRec(D1, << InfoD, InfoN >>)
DialD3 == DialRec(D2, << InfoX >>)

ShortRec(record) == record_convertFids(record, FALSE)
UpdS1 == DialRec(ShortRec(S1), << ShortRec(InfoS) >>)
UpdS2 == DialRec(ShortRec(S1), << ShortRec(InfoN), ShortRec(InfoS) >>)
UpdS3 == DialRec(ShortRec(S3), << ShortRec(InfoX) >>)
UpdS4 == DialRec(ShortRec(SI), << ShortRec(InfoX) >>)
UpdS5 == DialRec(ShortRec(D2), << >>)

DialDests ==
    { MobDials(HeaderD, << >>), MobDials(HeaderD, << DialD >>),
      MobDials(HeaderD, << DialD2 >>), MobDials(HeaderD, << DialD2, DialD3 >>),
      MobDials(HeaderD, << DialD3, DialD >>) }

DialSources ==
    { MobDials(HeaderD, rs) :
        rs \in SeqsUpTo({UpdS1, UpdS2, UpdS3, UpdS4, UpdS5}, MaxSrc) }

DialMergeIds ==
    SUBSET {FidA1, FidA2, InfoD.fid, InfoN.fid, InfoX.fid}

DialInit ==
    /\ dest \in DialDests
    /\ src = None
    /\ mergeIds \in DialMergeIds
    /\ op = [name |-> "init"]
    /\ err = ""
    /\ out = None

DialIndexRecords ==
    /\ op.name = "init"
    /\ dest' = indexRecords(dest)
    /\ op' = [name |-> "indexRecords"]
    /\ UNCHANGED <<src, mergeIds, err, out>>

DialUpdateRecords ==
    /\ src = None
    /\ \E srcBlock \in DialSources :
         \E r \in {MobDials_updateRecords(dest, srcBlock, mergeIds)} :
             /\ dest' = r.self
             /\ mergeIds' = r.mergeIds
             /\ err' = r.err
             /\ src' = srcBlock
             /\ op' = [name |-> "updateRecords", before |-> dest,
                       mergeIds |-> mergeIds]
    /\ out' = out

DialNext ==
    \/ DialIndexRecords
    \/ DialUpdateRecords

SpecDial == DialInit /\ [][DialNext]_vars

\* Every response (INFO) whose FormID is in the set has its owning topic's
\* FormID in the set.
ChildrenPinParent(g, ids) ==
    \A i \in 1..Len(g.records) :
        \A j \in 1..Len(g.records[i].infos) :
            g.records[i].infos[j].fid \in ids => g.records[i].fid \in ids

\* C17: updateRecords removes a topic's FormID from mergeIds only if, after
\* its responses were updated, none of its responses has its FormID in
\* mergeIds; so if every response FormID in mergeIds had its topic's FormID
\* in mergeIds before the call, the same holds after it.
C17_ChildrenPinParent ==
    (op.name = "updateRecords" /\ err = "") =>
        /\ mergeIds \subseteq op.mergeIds
        /\ \A i \in 1..Len(dest.records) :
              (dest.records[i].fid \in op.mergeIds \ mergeIds) =>
                 \A j \in 1..Len(dest.records[i].infos) :
                    dest.records[i].infos[j].fid \notin mergeIds
        /\ ChildrenPinParent(op.before, op.mergeIds)
              => ChildrenPinParent(dest, mergeIds)

\* A topic with two pending responses, updated from a source that holds
\* only one of them: that response is no longer pending, the other one is
\* and keeps the topic pending.
C17_Witness ==
    /\ op.name = "updateRecords"
    /\ err = ""
    /\ op.before.records = << DialD2 >>
    /\ src.records = << UpdS1 >>
    /\ op.mergeIds = {FidA1, InfoD.fid, InfoN.fid}
    /\ mergeIds = {FidA1, InfoN.fid}
    /\ dest.records[1].infos = << getTypeCopy(InfoS), InfoN >>

--------------------------------------------------------------------------
(* Specification SpecLoad: a container of any kind is built on the header  *)
(* of a well-formed group region, loads the region's payload without       *)
(* unpacking (src is the payload that follows the header in the input) and *)
(* is dumped, nothing else being called in between.                        *)

MaxPayload == 2

LoadKinds ==
    {"MobBase", "MobObjects", "MobDials", "MobCell", "MobICells", "MobWorld",
     "MobWorlds"}

\* The payloads: the tokens of up to MaxPayload child records.
Payloads ==
    UNION {[1..k -> {RecToken(D1), RecToken(D2)}] : k \in 0..MaxPayload}

\* The header of a well-formed region of each kind around a payload.
RegionHeader(kind, payload, stamp) ==
    GrupHeader(rec_header_size + StreamLen(payload),
               CASE kind = "MobCell" -> CellD1.fid
                 [] kind = "MobWorld" -> WorldD1.fid
                 [] kind = "MobICells" -> "CELL"
                 [] kind = "MobWorlds" -> "WRLD"
                 [] kind = "MobDials" -> "DIAL"
                 [] OTHER -> "NPC_",
               CASE kind = "MobCell" -> 6
                 [] kind = "MobWorld" -> 1
                 [] OTHER -> 0,
               stamp)

\* The container after __init__ without ins: no children, no data.
Unloaded(kind, header) ==
    MobBase_init(kind, header)
    @@ (CASE kind \in {"MobObjects", "MobDials"} ->
                [records |-> << >>, id_records |-> EmptyIndex]
          [] kind = "MobCell" ->
                [cell |-> CellD1, persistent |-> << >>, temp |-> << >>,
                 distant |-> << >>, land |-> None, pgrd |-> None]
          [] kind = "MobICells" ->
                [cellBlocks |-> << >>, id_cellBlock |-> EmptyIndex]
          [] kind = "MobWorld" ->
                [cellBlocks |-> << >>, id_cellBlock |-> EmptyIndex,
                 world |-> WorldD1, road |-> None, worldCellBlock |-> None]
          [] kind = "MobWorlds" ->
                [worldBlocks |-> << >>, id_worldBlocks |-> EmptyIndex]
          [] OTHER -> [kind |-> kind])

LoadInit ==
    /\ \E kind \in LoadKinds, payload \in Payloads, stamp \in {0, 7} :
         /\ dest = Unloaded(kind, RegionHeader(kind, payload, stamp))
         /\ src = payload
    /\ mergeIds = {}
    /\ op = [name |-> "init"]
    /\ err = ""
    /\ out = None

\* load(ins, do_unpack=False)
LoadLazy ==
    /\ op.name = "init"
    /\ dest' = MobBase_load(dest, src)
    /\ op' = [name |-> "load"]
    /\ UNCHANGED <<src, mergeIds, err, out>>

\* getSize, then dump, of the container as loaded.
LoadDump ==
    /\ op.name = "load"
    /\ \E d \in {Cont_dump(dest)} :
         /\ dest' = d.self
         /\ err' = d.err
         /\ out' = [getSize |-> Cont_getSize(dest), dump |-> d.stream]
    /\ op' = [name |-> "dump", before |-> dest]
    /\ UNCHANGED <<src, mergeIds>>

LoadNext ==
    \/ LoadLazy
    \/ LoadDump

SpecLoad == LoadInit /\ [][LoadNext]_vars

\* What dump wrote for the group region: everything, but for a WorldBlock,
\* whose dump first writes the world record the block belongs to, what
\* follows that record.
C1_Region(c, stream) ==
    IF c.kind = "MobWorld" /\ stream # << >> /\ Head(stream) = RecToken(c.world)
    THEN Tail(stream)
    ELSE stream

\* C1: a container of any kind that loaded a well-formed region without
\* unpacking, an empty one included, and was not changed dumps without
\* error and writes exactly the region's header followed by its payload.
C1_RoundTrip ==
    op.name = "dump" =>
        /\ err = ""
        /\ C1_Region(op.before, out.dump) = << op.before.header >> \o src

--------------------------------------------------------------------------
(* Specification SpecRead: a container is built on the header of a group   *)
(* region and loads the region's payload src with do_unpack=True.  The     *)
(* payload is a concatenation of up to MaxChunks chunks, after nothing or  *)
(* after the well-formed opening of its kind; a group that is skipped or   *)
(* unpacked as a whole has the size of the chunk it begins.                *)

MaxChunks == 3

ReadKinds == {"MobCell", "MobICells", "MobDials", "MobWorld", "MobWorlds"}

ChunkSeqs(openings, pool) ==
    UNION {{opening \o Flatten(cs) : opening \in openings, cs \in [1..k -> pool]}
           : k \in 0..MaxChunks}

\* A group header around the given content.
GroupOf(label, groupType, content) ==
    << GrupHeader(rec_header_size + StreamLen(content), label, groupType, 7) >>
    \o content

CellChunks ==
    { GroupOf(CellD1.fid, 8, << >>), GroupOf(CellD1.fid, 9, << >>),
      GroupOf(CellD1.fid, 10, << >>), GroupOf(CellD1.fid, 6, << >>),
      << InRec("REFR", RefD) >>, << InRec("LAND", LandD) >>,
      << InRec("PGRD", PgrdS) >>, << InRec("NPC_", RefX) >> }

\* The label of a block or sub-block group: its number.
BlockLabel(n) == <<"", n>>

\* Block and sub-block headers with a declared size: 200 is past the end of
\* every payload, 43 holds a header and the record of CellD1, 20 nothing.
ICellChunks ==
    { << GrupHeader(200, BlockLabel(0), 2, 7) >>,
      << GrupHeader(20, BlockLabel(1), 2, 7) >>,
      << GrupHeader(200, BlockLabel(0), 3, 7) >>,
      << GrupHeader(43, BlockLabel(1), 3, 7) >>,
      << InRec("CELL", CellD1) >>, << InRec("CELL", CellS2) >>,
      GroupOf(CellD1.fid, 6, << >>),
      GroupOf(CellS2.fid, 6,
              GroupOf(CellS2.fid, 9, << >>) \o << InRec("REFR", RefD) >>) }

DialChunks ==
    { << InRec("DIAL", D1) >>, << InRec("DIAL", D2) >>,
      GroupOf(D1.fid, 7, << InRec("INFO", InfoD) >>),
      GroupOf(D2.fid, 7, << InRec("INFO", InfoX) >>),
      GroupOf(D1.fid, 7, << >>), GroupOf(D1.fid, 3, << >>),
      << InRec("INFO", InfoN) >> }

OrphanFid == <<"A.esp", 255>>

WorldChunks ==
    { << InRec("WRLD", WorldD1) >>, << InRec("WRLD", WorldS2) >>,
      GroupOf(WorldD1.fid, 1, << >>),
      GroupOf(WorldS2.fid, 1, << InRec("ROAD", RoadD) >>),
      GroupOf(WorldD1.fid, 1,
              << InRec("CELL", CellD1) >> \o GroupOf(CellD1.fid, 6, << >>)),
      GroupOf(OrphanFid, 1, << RawToken(1), RawToken(2) >>),
      GroupOf(WorldD1.fid, 4, << >>) }

\* The well-formed opening of a region of each kind.
Opening(kind) ==
    CASE kind = "MobCell" -> GroupOf(CellD1.fid, 8, << >>)
      [] kind = "MobICells" -> << GrupHeader(200, BlockLabel(0), 2, 7),
                                  GrupHeader(200, BlockLabel(0), 3, 7) >>
      [] kind = "MobDials" -> << InRec("DIAL", D1) >>
      [] kind = "MobWorld" -> << GrupHeader(200, BlockLabel(0), 4, 7),
                                 GrupHeader(200, BlockLabel(0), 5, 7) >>
      [] OTHER -> << InRec("WRLD", WorldD1) >>
                  \o GroupOf(WorldD1.fid, 1, << >>)

\* The payload of a world children group: exterior block and sub-block
\* headers, the road, cells and their children groups.
WorldBlockChunks ==
    { << GrupHeader(200, BlockLabel(0), 4, 7) >>,
      << GrupHeader(200, BlockLabel(0), 5, 7) >>,
      << InRec("ROAD", RoadD) >>,
      << InRec("CELL", ExtD1) >>, << InRec("CELL", ExtS2) >>,
      GroupOf(ExtD1.fid, 6, << >>),
      GroupOf(ExtS2.fid, 6,
              GroupOf(ExtS2.fid, 9, << >>) \o << InRec("REFR", RefD) >>) }

ReadStreams(kind) ==
    ChunkSeqs({<< >>, Opening(kind)},
              CASE kind = "MobCell" -> CellChunks
                [] kind = "MobICells" -> ICellChunks
                [] kind = "MobDials" -> DialChunks
                [] kind = "MobWorld" -> WorldBlockChunks
                [] OTHER -> WorldChunks)

\* The load factory and the game: which children of a cell have a class,
\* whether cell blocks are unpacked, whether INFO has a class, and whether
\* the game is not Oblivion.
LoadFactory(cellClasses, unpackCellBlocks, infoClass, isFallout) ==
    [cellClasses |-> cellClasses, unpackCellBlocks |-> unpackCellBlocks,
     infoClass |-> infoClass, isFallout |-> isFallout]

LoadFactories ==
    { LoadFactory(cellType_class \cup {"ROAD"}, TRUE, TRUE, FALSE),
      LoadFactory({"REFR", "ACHR", "ACRE", "LAND"}, FALSE, FALSE, TRUE) }

ReadInit ==
    /\ \E kind \in ReadKinds :
         \E payload \in ReadStreams(kind) :
            /\ dest = Unloaded(kind, RegionHeader(kind, payload, 7))
            /\ src = payload
    /\ mergeIds = {}
    /\ \E lf \in LoadFactories : op = [name |-> "init", lf |-> lf]
    /\ err = ""
    /\ out = None

\* What a load leaves: the container, the error, and in out the reader's
\* position (and the container's orphansSkipped).
ReadDone(r, orphansSkipped) ==
    /\ dest' = r.self
    /\ err' = r.err
    /\ out' = [pos |-> r.pos, orphansSkipped |-> orphansSkipped]
    /\ op' = [op EXCEPT !.name = "load"]
    /\ UNCHANGED <<src, mergeIds>>

ReadCell ==
    /\ op.name = "init"
    /\ dest.kind = "MobCell"
    /\ ReadDone(MobBase_load_unpack(
            MobCell_load_rec_group(dest, src, 0, dest.size - rec_header_size,
                                   op.lf)), 0)

ReadICells ==
    /\ op.name = "init"
    /\ dest.kind = "MobICells"
    /\ ReadDone(MobBase_load_unpack(
            MobICells_load_rec_group(dest, src, 0,
                                     dest.size - rec_header_size, op.lf)), 0)

ReadDials ==
    /\ op.name = "init"
    /\ dest.kind = "MobDials"
    /\ ReadDone(MobBase_load_unpack(
            MobDials_load_rec_group(dest, src, 0,
                                    dest.size - rec_header_size, op.lf)), 0)

ReadWorld ==
    /\ op.name = "init"
    /\ dest.kind = "MobWorld"
    /\ ReadDone(MobBase_load_unpack(
            MobWorld_load_rec_group(dest, src, 0,
                                    dest.size - rec_header_size, op.lf)), 0)

ReadWorlds ==
    /\ op.name = "init"
    /\ dest.kind = "MobWorlds"
    /\ \E r \in {MobWorlds_load_rec_group(dest, src, 0,
                                          dest.size - rec_header_size,
                                          op.lf)} :
         ReadDone(MobBase_load_unpack(r), r.orphansSkipped)

ReadNext ==
    \/ ReadCell
    \/ ReadICells
    \/ ReadDials
    \/ ReadWorld
    \/ ReadWorlds

SpecRead == ReadInit /\ [][ReadNext]_vars

\* The positions in ins of the items of one level of a region, from byte
\* pos on: records, and group headers, the groups whose type is in open
\* being entered and the other ones stepped over by their size.
RECURSIVE LevelItems(_, _, _)
LevelItems(ins, pos, open) ==
    IF ~HasHeaderAt(ins, pos) THEN << >>
    ELSE << ItemAt(ins, pos) >> \o
         LevelItems(ins,
                    IF ins[ItemAt(ins, pos)].t = "GRUP"
                       /\ ins[ItemAt(ins, pos)].groupType \notin open
                    THEN pos + ins[ItemAt(ins, pos)].size
                    ELSE pos + TokLen(ins[ItemAt(ins, pos)]),
                    open)

\* Whether position k of ins holds a group header of one of the types.
IsGroup(ins, k, types) ==
    ins[k].t = "GRUP" /\ ins[k].groupType \in types

\* Whether position k of ins holds a record of the type.
IsRecord(ins, k, recType) ==
    ins[k].t = "REC" /\ ins[k].recType = recType

\* The byte offset at which item k of ins ends: a group with its content.
EndOf(ins, k) ==
    StartOf(ins, k) + (IF ins[k].t = "GRUP" THEN ins[k].size
                       ELSE TokLen(ins[k]))

\* Whether, in the level items, i is a group of one of the types / a record
\* of the type and j is the most recent one before position n.
LastGroupBefore(ins, items, j, n, types) ==
    /\ j < n
    /\ IsGroup(ins, items[j], types)
    /\ \A m \in (j + 1)..(n - 1) : ~IsGroup(ins, items[m], types)

LastRecordBefore(ins, items, j, n, recType) ==
    /\ j < n
    /\ IsRecord(ins, items[j], recType)
    /\ \A m \in (j + 1)..(n - 1) : ~IsRecord(ins, items[m], recType)

\* Item n of the level items of a WorldGroup is a world children group
\* whose label names no WRLD record read before it.
IsOrphan(items, n) ==
    /\ IsGroup(src, items[n], {1})
    /\ \A j \in 1..(n - 1) :
          IsRecord(src, items[j], "WRLD")
             => src[items[j]].rec.fid # src[items[n]].label

\* Item n directly follows a WRLD record.
AfterWorld(items, n) == n > 1 /\ IsRecord(src, items[n - 1], "WRLD")

\* The orphan groups among the items.
Orphans(items) == {n \in 1..Len(items) : IsOrphan(items, n)}

\* The orphan groups load puts up with: all of them when the game is not
\* Oblivion, and for Oblivion those that do not directly follow a WRLD.
ToleratedOrphans(items) ==
    {n \in Orphans(items) : op.lf.isFallout \/ ~AfterWorld(items, n)}

\* Every children group that is no orphan directly follows its WRLD.
ChildrenPlaced(items) ==
    \A n \in 1..Len(items) :
        (IsGroup(src, items[n], {1}) /\ ~IsOrphan(items, n)) =>
            /\ AfterWorld(items, n)
            /\ src[items[n - 1]].rec.fid = src[items[n]].label

\* No world block is made of an orphan group: the header of a block made
\* of a group is that of a group of the level that is no orphan.
NoOrphanBlock(items) ==
    \A b \in 1..Len(dest.worldBlocks) :
        dest.worldBlocks[b].header.t = "GRUP" =>
            \E n \in 1..Len(items) :
                /\ IsGroup(src, items[n], {1})
                /\ ~IsOrphan(items, n)
                /\ src[items[n]] = dest.worldBlocks[b].header

\* What the load of a WorldGroup does with the orphan groups in the set
\* orphans: it does not fail at one, each one read adds one to
\* orphansSkipped (which is their number when nothing else is skipped),
\* and no world block is made of one.
OrphansSkipped(items, orphans) ==
    /\ \A n \in orphans : ~(err # "" /\ out.pos = StartOf(src, items[n]))
    /\ out.orphansSkipped >=
          Cardinality({n \in orphans : EndOf(src, items[n]) <= out.pos})
    /\ (err = "" /\ ChildrenPlaced(items)) =>
          out.orphansSkipped = Cardinality(orphans)
    /\ NoOrphanBlock(items)

\* C11 as stated: the load of a WorldGroup never fails at an orphan group,
\* wherever it is in the stream; orphansSkipped counts each one, and no
\* world block is made of one.
C11_OrphanToleranceOriginal ==
    (op.name = "load" /\ dest.kind = "MobWorlds") =>
        OrphansSkipped(LevelItems(src, 0, {}),
                       Orphans(LevelItems(src, 0, {})))

\* C11: the load of a WorldGroup never fails at an orphan group, unless the
\* game is Oblivion and the group directly follows a WRLD record;
\* orphansSkipped counts each such orphan group, and no world block is
\* made of one.
C11_OrphanTolerance ==
    (op.name = "load" /\ dest.kind = "MobWorlds") =>
        OrphansSkipped(LevelItems(src, 0, {}),
                       ToleratedOrphans(LevelItems(src, 0, {})))

\* A world with its children group, then an orphan group: the load ends at
\* the end of the stream with one world block and one orphan counted.
C11_Witness ==
    /\ op.name = "load"
    /\ dest.kind = "MobWorlds"
    /\ ~op.lf.isFallout
    /\ src = Opening("MobWorlds")
             \o GroupOf(OrphanFid, 1, << RawToken(1), RawToken(2) >>)
    /\ err = ""
    /\ out.orphansSkipped = 1
    /\ out.pos = StreamLen(src)
    /\ Len(dest.worldBlocks) = 1

\* Every children sub-group (type 7) among the items is labelled with the
\* FormID of the most recent DIAL record before it.
ChildrenOwned(items) ==
    \A n \in 1..Len(items) :
        IsGroup(src, items[n], {7}) =>
            \A j \in 1..(n - 1) :
                LastRecordBefore(src, items, j, n, "DIAL")
                => src[items[n]].label = src[items[j]].rec.fid

\* C18: when a DialogueGroup is loaded, a children sub-group (type 7) whose
\* label is not the FormID of the most recently read topic makes the load
\* fail: a load that succeeded saw only sub-groups labelled with the FormID
\* of the topic before them.
C18_ChildOwnership ==
    (op.name = "load" /\ dest.kind = "MobDials" /\ err = "") =>
        ChildrenOwned(LevelItems(src, 0, {}))

\* C19: when a CellBlock is loaded, a sub-group of a type other than 8, 9
\* and 10, and a second sub-group of a type already seen in the same cell
\* children group, make the load fail: a load that succeeded saw only
\* sub-groups of the types 8, 9, 10, and each type at most once.
C19_RejectsSubgroups ==
    (op.name = "load" /\ dest.kind = "MobCell" /\ err = "") =>
        /\ \A n \in 1..Len(src) :
              src[n].t = "GRUP" => src[n].groupType \in {8, 9, 10}
        /\ \A m, n \in 1..Len(src) :
              (m < n /\ src[m].t = "GRUP" /\ src[n].t = "GRUP")
                 => src[m].groupType # src[n].groupType

\* Every CELL record among the items comes after a block group and a
\* sub-block group and ends at or before the end of the most recent one of
\* each.
CellsInBounds(items) ==
    \A n \in 1..Len(items) :
        IsRecord(src, items[n], "CELL") =>
            \A t \in {2, 3} :
                \E j \in 1..(n - 1) :
                    /\ LastGroupBefore(src, items, j, n, {t})
                    /\ EndOf(src, items[n]) <= EndOf(src, items[j])

\* C20: when an interior cell container is loaded, a CELL record read before
\* any block or sub-block group, or ending past the end offset of the most
\* recently declared block group or sub-block group, makes the load fail
\* with a format error: a load that succeeded saw every CELL record end at
\* or before both ends.
C20_InteriorCellBounds ==
    (op.name = "load" /\ dest.kind = "MobICells") =>
        /\ err \in {"", "ModError"}
        /\ err = "" => CellsInBounds(LevelItems(src, 0, {2, 3}))

\* A cell that ends with its sub-block is loaded and the next one, past
\* the sub-block's end, makes the load fail.
C20_Witness ==
    /\ op.name = "load"
    /\ dest.kind = "MobICells"
    /\ src = Opening("MobICells")
             \o << GrupHeader(43, BlockLabel(1), 3, 7),
                   InRec("CELL", CellD1), InRec("CELL", CellS2) >>
    /\ err = "ModError"
    /\ out.pos = EndOf(src, 5)
    /\ Len(dest.cellBlocks) = 1

\* The records of the type among the items, in stream order, from item n on.
RECURSIVE RecordsAmong(_, _, _)
RecordsAmong(items, n, recType) ==
    IF n > Len(items) THEN << >>
    ELSE (IF IsRecord(src, items[n], recType)
          THEN << src[items[n]].rec >> ELSE << >>)
         \o RecordsAmong(items, n + 1, recType)

\* A WorldGroup stream of WRLD records, each directly followed by its own
\* children group or by none.
WorldsWithOrWithoutChildren(items) ==
    /\ \A n \in 1..Len(items) :
          \/ IsRecord(src, items[n], "WRLD")
          \/ /\ IsGroup(src, items[n], {1})
             /\ AfterWorld(items, n)
             /\ src[items[n - 1]].rec.fid = src[items[n]].label
    /\ Len(items) > 0 => EndOf(src, items[Len(items)]) = StreamLen(src)

\* Item n is a WRLD record without a children group.
IsChildless(items, n) ==
    /\ IsRecord(src, items[n], "WRLD")
    /\ n < Len(items) => IsRecord(src, items[n + 1], "WRLD")

\* The world blocks are those of the WRLD records, one each and in stream
\* order, and those of the childless ones are empty.
OneBlockPerWorld(items) ==
    /\ [b \in 1..Len(dest.worldBlocks) |-> dest.worldBlocks[b].world]
          = RecordsAmong(items, 1, "WRLD")
    /\ \A b \in 1..Len(dest.worldBlocks) :
          dest.worldBlocks[b].header.t = "REC" =>
              /\ dest.worldBlocks[b].road = None
              /\ dest.worldBlocks[b].worldCellBlock = None
              /\ dest.worldBlocks[b].cellBlocks = << >>
    /\ \A n \in 1..Len(items) :
          IsChildless(items, n) =>
              \E b \in 1..Len(dest.worldBlocks) :
                  /\ dest.worldBlocks[b].world = src[items[n]].rec
                  /\ dest.worldBlocks[b].road = None
                  /\ dest.worldBlocks[b].worldCellBlock = None
                  /\ dest.worldBlocks[b].cellBlocks = << >>

CellsOfBlocks(cellBlocks) ==
    [b \in 1..Len(cellBlocks) |-> cellBlocks[b].cell]

\* C28: after an eager load of an interior cell container, the list of cell
\* blocks holds exactly one CellBlock per CELL record of the stream, in
\* stream order, the last CELL record included when it has no children
\* group.
C28_NoCellLost ==
    (op.name = "load" /\ dest.kind = "MobICells" /\ err = "") =>
        CellsOfBlocks(dest.cellBlocks)
           = RecordsAmong(LevelItems(src, 0, {2, 3}), 1, "CELL")

\* The cell blocks of a WorldBlock: the world cell block and the bucketed
\* ones.
AllCellBlocks(w) ==
    (IF w.worldCellBlock = None THEN << >> ELSE << w.worldCellBlock >>)
    \o w.cellBlocks

\* Every CELL record among the items has as many cell blocks as it occurs
\* in the stream: one each.
OneBlockPerCell(items, blocks) ==
    \A n \in 1..Len(items) :
        IsRecord(src, items[n], "CELL") =>
            Cardinality({b \in 1..Len(blocks) :
                            blocks[b].cell = src[items[n]].rec})
               = Cardinality({m \in 1..Len(items) :
                                 /\ IsRecord(src, items[m], "CELL")
                                 /\ src[items[m]].rec = src[items[n]].rec})

\* C27: after an eager load of a world children group, every CELL record of
\* the stream is represented by exactly one CellBlock (the world cell or an
\* entry of cellBlocks), whether or not a cell children group follows it.
C27_OneBlockPerCell ==
    (op.name = "load" /\ dest.kind = "MobWorld" /\ err = "") =>
        OneBlockPerCell(LevelItems(src, 0, {4, 5}), AllCellBlocks(dest))

--------------------------------------------------------------------------
(* Specification SpecIdent: one cell block or world block of the patch     *)
(* file under one merge_records or one updateRecords from a source block   *)
(* whose singletons agree or disagree with its own.                        *)

PgrdD == Rec(60, <<"A.esp", 27>>, "", FALSE, FALSE, 4, {}, {})
LandS == Rec(61, <<"A.esp", 25>>, "", FALSE, FALSE, 6, {}, {})
LandM == Rec(62, <<"A.esp", 26>>, "", FALSE, FALSE, 6, {}, {})
RoadM == Rec(63, <<"A.esp", 76>>, "", FALSE, FALSE, 3, {}, {})
CellSI == CellRec(Rec(64, <<"A.esp", 42>>, "c2", FALSE, TRUE, 2, {}, {}),
                  TRUE, << >>, << >>)

IdCbD == MobCell(CellHeader, CellD1, << RefD >>, << >>, << >>, LandD, PgrdD)
IdCbL == MobCell(CellHeader, CellS1, << RefA >>, << >>, << >>, LandS, PgrdS)
IdCbM == MobCell(CellHeader, CellS1, << RefA >>, << >>, << >>, LandM, PgrdS)
IdCbI == MobCell(CellHeader, CellSI, << RefA >>, << >>, << >>, LandS, None)
IdWbD == MobWorld(WorldHeader, WorldD1, RoadD, XbW, << XbD1 >>)
IdWbR == MobWorld(WorldHeader, WorldS1, RoadM, None, << XbS1 >>)
IdWbC == MobWorld(WorldHeader, WorldS1, RoadS, XbS2, << XbS1 >>)

IdentDests == { CbD2, IdCbD, WbD1, IdWbD }

IdentSources(kind) ==
    IF kind = "MobCell"
    THEN { CbS1, CbS2, CbS3, CbSX, IdCbL, IdCbM, IdCbI }
    ELSE { WbS1, WbS2, WbS3, WbSX, IdWbR, IdWbC }

IdentMergeIds ==
    { {},
      {CellD1.fid, LandD.fid, PgrdD.fid, WorldD1.fid, RoadD.fid, RefD.fid},
      {CellS2.fid, CellSX.fid, LandM.fid, WorldS2.fid, WorldSX.fid,
       RoadM.fid} }

IdentInit ==
    /\ dest \in IdentDests
    /\ src = None
    /\ mergeIds \in IdentMergeIds
    /\ op = [name |-> "init"]
    /\ err = ""
    /\ out = None

\* merge_records from a source block in long form.
IdentMergeRecords ==
    /\ op.name = "init"
    /\ \E block \in IdentSources(dest.kind), loadSet \in LoadSets,
          iiSkipMerge \in BOOLEAN, doFilter \in BOOLEAN :
         \E r \in {Cont_merge_records(dest, block, loadSet, mergeIds,
                                       iiSkipMerge, doFilter)} :
             /\ dest' = r.self
             /\ src' = r.block
             /\ mergeIds' = r.mergeIds
             /\ err' = r.err
             /\ op' = [name |-> "merge_records", before |-> dest,
                       block |-> block, loadSet |-> loadSet,
                       mergeIds |-> mergeIds,
                       iiSkipMerge |-> iiSkipMerge, doFilter |-> doFilter]
    /\ out' = None

\* updateRecords from a source block in short form, mapper taking its
\* FormIDs to long form.
IdentUpdateRecords ==
    /\ op.name = "init"
    /\ \E block \in IdentSources(dest.kind) :
         \E srcBlock \in {IF dest.kind = "MobCell"
                          THEN MobCell_convertFids(block, FALSE)
                          ELSE MobWorld_convertFids(block, FALSE)} :
           \E r \in {IF dest.kind = "MobCell"
                     THEN MobCell_updateRecords(dest, srcBlock, mergeIds)
                     ELSE MobWorld_updateRecords(dest, srcBlock, mergeIds)} :
             /\ dest' = r.self
             /\ src' = srcBlock
             /\ mergeIds' = r.mergeIds
             /\ err' = r.err
             /\ op' = [name |-> "updateRecords", before |-> dest,
                       block |-> srcBlock, mergeIds |-> mergeIds,
                       loadSet |-> {}, iiSkipMerge |-> FALSE,
                       doFilter |-> FALSE]
    /\ out' = None

IdentNext ==
    \/ IdentMergeRecords
    \/ IdentUpdateRecords

SpecIdent == IdentInit /\ [][IdentNext]_vars

--------------------------------------------------------------------------
(* Claims checked under SpecIdent. *)

\* The singletons of a block, in the order the operations take them.
SingleAttrs(kind) ==
    IF kind = "MobCell" THEN << "cell", "pgrd", "land" >>
    ELSE << "world", "road" >>

\* Destination and source both hold the n-th singleton and the FormIDs
\* differ once the source's is mapped.
Mismatch(o, n) ==
    /\ o.before[SingleAttrs(o.before.kind)[n]] # None
    /\ o.block[SingleAttrs(o.before.kind)[n]] # None
    /\ o.before[SingleAttrs(o.before.kind)[n]].fid
          # convertFid(o.block[SingleAttrs(o.before.kind)[n]].fid, TRUE)

\* The source's n-th singleton takes part in the operation: updateRecords
\* looks at every one, merge_records at the active ones that pass the
\* merge filter, and at none under iiSkipMerge.
TakesPart(o, n) ==
    \/ o.name = "updateRecords"
    \/ /\ o.name = "merge_records"
       /\ ~o.iiSkipMerge
       /\ ~o.block[SingleAttrs(o.before.kind)[n]].ignored
       /\ o.doFilter =>
             updateMasters(mergeFilter(o.block[SingleAttrs(o.before.kind)[n]],
                                       o.loadSet)) \subseteq o.loadSet

SingleOp ==
    /\ op.name \in {"updateRecords", "merge_records"}
    /\ op.before.kind \in {"MobCell", "MobWorld"}

\* No singleton is replaced by a record of another FormID, and the FormID
\* of a disagreeing source singleton is neither added to nor removed from
\* mergeIds.
SingletonsKept ==
    \A n \in 1..Len(SingleAttrs(op.before.kind)) :
        /\ (/\ op.before[SingleAttrs(op.before.kind)[n]] # None
            /\ dest[SingleAttrs(op.before.kind)[n]] # None)
           => dest[SingleAttrs(op.before.kind)[n]].fid
                 = op.before[SingleAttrs(op.before.kind)[n]].fid
        /\ Mismatch(op, n)
           => (convertFid(op.block[SingleAttrs(op.before.kind)[n]].fid, TRUE)
                  \in mergeIds)
              = (convertFid(op.block[SingleAttrs(op.before.kind)[n]].fid, TRUE)
                  \in op.mergeIds)

\* What comes after the singletons is as it was.
RestUntouched ==
    IF op.before.kind = "MobCell"
    THEN /\ dest.persistent = op.before.persistent
         /\ dest.temp = op.before.temp
         /\ dest.distant = op.before.distant
    ELSE /\ dest.worldCellBlock = op.before.worldCellBlock
         /\ dest.cellBlocks = op.before.cellBlocks

--------------------------------------------------------------------------
(* getNumRecords of MobCell, MobCells and MobWorld. *)

\* bool(x) and True / False as integers.
AsInt(b) == IF b THEN 1 ELSE 0

\* MobCell.getNumRecords
MobCell_getNumRecords(cb, includeGroups) ==
    1 + AsInt(includeGroups)
    + (IF cb.persistent # << >>
       THEN Len(cb.persistent) + AsInt(includeGroups) ELSE 0)
    + (IF cb.temp # << >> \/ cb.pgrd # None \/ cb.land # None
       THEN Len(cb.temp) + AsInt(includeGroups)
            + AsInt(cb.pgrd # None) + AsInt(cb.land # None)
       ELSE 0)
    + (IF cb.distant # << >>
       THEN Len(cb.distant) + AsInt(includeGroups) ELSE 0)

\* MobCells.getUsedBlocks and getUsedSubblocks
getUsedBlocks(c) ==
    {MobCell_getBsb(c.cellBlocks[i])[1] : i \in 1..Len(c.cellBlocks)}
getUsedSubblocks(c) ==
    {MobCell_getBsb(c.cellBlocks[i]) : i \in 1..Len(c.cellBlocks)}

\* count = sum(x.getNumRecords(includeGroups) for x in self.cellBlocks)
SumNumRecords(cellBlocks, includeGroups) ==
    SumSeq([i \in 1..Len(cellBlocks) |->
              MobCell_getNumRecords(cellBlocks[i], includeGroups)])

\* MobCells.getNumRecords
MobCells_getNumRecords(c, includeGroups) ==
    IF SumNumRecords(c.cellBlocks, includeGroups) # 0 /\ includeGroups
    THEN SumNumRecords(c.cellBlocks, includeGroups) + 1
         + Cardinality(getUsedBlocks(c)) + Cardinality(getUsedSubblocks(c))
    ELSE SumNumRecords(c.cellBlocks, includeGroups)

\* MobWorld.getNumRecords: returns self, val and err.  A block that is not
\* changed goes to MobBase.getNumRecords, which takes no includeGroups.
MobWorld_getNumRecords(w, includeGroups) ==
    IF ~w.changed THEN MobBase_getNumRecords(w)
    ELSE [self |-> w,
          val |-> 1 + AsInt(w.road # None)
                  + (IF w.worldCellBlock # None
                     THEN MobCell_getNumRecords(w.worldCellBlock,
                                                includeGroups)
                     ELSE 0)
                  + MobCells_getNumRecords(w, includeGroups),
          err |-> ""]

\* getNumRecords of a cell block, an interior cell container or a world
\* block: self, val and err.
Dump_getNumRecords(c, includeGroups) ==
    CASE c.kind = "MobCell" ->
            [self |-> c, val |-> MobCell_getNumRecords(c, includeGroups),
             err |-> ""]
      [] c.kind = "MobICells" ->
            [self |-> c, val |-> MobCells_getNumRecords(c, includeGroups),
             err |-> ""]
      [] c.kind = "MobWorld" -> MobWorld_getNumRecords(c, includeGroups)

\* dump of one of them: self, the tokens written, the value returned (0
\* where dump returns none) and err.
Dump_dump(c) ==
    CASE c.kind = "MobCell" ->
            [self |-> c, stream |-> MobCell_dump(c), ret |-> 0, err |-> ""]
      [] c.kind = "MobICells" -> MobICells_dump(c) @@ [ret |-> 0]
      [] c.kind = "MobWorld" -> MobWorld_dump(c)

--------------------------------------------------------------------------
(* Specification SpecDump: dump of a changed interior cell container and   *)
(* of a world block, whose cell blocks lie in one or several blocks and    *)
(* sub-blocks and stand in any order in cellBlocks.                        *)

MaxCells == 3

\* Interior cells of blocks 1 and 2: (1, 3) twice, (1, 4), (2, 4), (2, 0).
ICellA == CellRec(Rec(70, <<"A.esp", 131>>, "ia", FALSE, FALSE, 3, {}, {}),
                  TRUE, << >>, << >>)
ICellB == CellRec(Rec(71, <<"A.esp", 31>>, "ib", FALSE, FALSE, 5, {}, {}),
                  TRUE, << >>, << >>)
ICellC == CellRec(Rec(72, <<"A.esp", 41>>, "ic", FALSE, FALSE, 2, {}, {}),
                  TRUE, << >>, << >>)
ICellD == CellRec(Rec(73, <<"A.esp", 42>>, "id", FALSE, FALSE, 4, {}, {}),
                  TRUE, << >>, << >>)
ICellE == CellRec(Rec(74, <<"Oblivion.esm", 2>>, "ie", FALSE, FALSE, 1, {}, {}),
                  TRUE, << >>, << >>)

\* Exterior cells: two of one sub-block, one of another sub-block of the
\* same block, one of another block.
ECellA == CellRec(Rec(75, <<"A.esp", 63>>, "ea", FALSE, FALSE, 3, {}, {}),
                  FALSE, <<-10>>, <<41>>)
ECellB == CellRec(Rec(76, <<"A.esp", 64>>, "eb", FALSE, FALSE, 2, {}, {}),
                  FALSE, <<-20>>, <<40>>)

DumpICellBlocks ==
    { MobCell(CellHeader, ICellA, << >>, << RefD >>, << >>, None, None),
      MobCell(CellHeader, ICellB, << RefA >>, << >>, << RefF >>, LandD, None),
      MobCell(CellHeader, ICellC, << >>, << >>, << >>, None, None),
      MobCell(CellHeader, ICellD, << >>, << >>, << >>, None, PgrdS),
      MobCell(CellHeader, ICellE, << >>, << >>, << >>, None, None) }

DumpECellBlocks ==
    { XbD1, XbS2,
      MobCell(CellHeader, ECellA, << >>, << >>, << >>, None, None),
      MobCell(CellHeader, ECellB, << RefA >>, << >>, << >>, None, None) }

\* The world blocks an eager load makes: one of a WRLD with a children
\* group, and one of a WRLD without (the WRLD's own header, nothing loaded).
DumpWorldBlocks ==
    { MobWorld(WorldHeader, WorldD1, road, worldCellBlock, cellBlocks) :
        road \in {None, RoadD}, worldCellBlock \in {None, XbW},
        cellBlocks \in SeqsUpTo(DumpECellBlocks, MaxCells) }
    \cup { MobWorld_new(RecHeader(InRec("WRLD", WorldD1)), WorldD1) }

DumpDests ==
    { MobCells("MobICells", HeaderC, cellBlocks) :
        cellBlocks \in SeqsUpTo(DumpICellBlocks, MaxCells) }
    \cup DumpWorldBlocks
    \cup DumpICellBlocks \cup DumpECellBlocks

DumpInit ==
    /\ dest \in DumpDests
    /\ src = None
    /\ mergeIds = {}
    /\ op = [name |-> "init"]
    /\ err = ""
    /\ out = None

\* dump(out): out holds the tokens written and, for a world block, the
\* value returned.
DumpDump ==
    /\ op.name = "init"
    /\ \E d \in {Dump_dump(dest)} :
         /\ dest' = d.self
         /\ err' = d.err
         /\ out' = [dump |-> d.stream, ret |-> d.ret]
    /\ op' = [name |-> "dump", before |-> dest]
    /\ UNCHANGED <<src, mergeIds>>

\* getNumRecords(includeGroups): out holds the value returned.
DumpGetNumRecords ==
    /\ op.name = "init"
    /\ \E includeGroups \in BOOLEAN :
         \E n \in {Dump_getNumRecords(dest, includeGroups)} :
             /\ dest' = n.self
             /\ err' = n.err
             /\ out' = [getNumRecords |-> n.val]
             /\ op' = [name |-> "getNumRecords", before |-> dest,
                       includeGroups |-> includeGroups]
    /\ UNCHANGED <<src, mergeIds>>

DumpNext ==
    \/ DumpDump
    \/ DumpGetNumRecords

SpecDump == DumpInit /\ [][DumpNext]_vars

--------------------------------------------------------------------------
(* Claims checked under SpecDump. *)

IsBlockHeader(tok) == tok.t = "GRUP" /\ tok.groupType \in {2, 4}
IsSubblockHeader(tok) == tok.t = "GRUP" /\ tok.groupType \in {3, 5}
IsCellToken(tok) == tok.t = "REC" /\ "isInterior" \in DOMAIN tok.rec

\* The positions of a stream that satisfy a test, in increasing order.
PositionsOf(s, Test(_)) ==
    SelectSeq([i \in 1..Len(s) |-> i], LAMBDA i : Test(s[i]))

\* The bucketed part of a dump: from the first block header on.
BucketedPart(s) ==
    IF \E i \in 1..Len(s) : IsBlockHeader(s[i])
    THEN SubSeq(s, CHOOSE i \in 1..Len(s) :
                        /\ IsBlockHeader(s[i])
                        /\ \A j \in 1..(i - 1) : ~IsBlockHeader(s[j]),
                Len(s))
    ELSE << >>

\* The last position before i that holds a header of the kind, 0 if none.
HeaderBefore(s, i, Test(_)) ==
    IF \E j \in 1..(i - 1) : Test(s[j])
    THEN CHOOSE j \in 1..(i - 1) :
            Test(s[j]) /\ \A k \in (j + 1)..(i - 1) : ~Test(s[k])
    ELSE 0

\* The sort key of a dumped cell: its bucket, then its FormID.
CellKey(cell) ==
    (IF cell.isInterior
     THEN getBsb(CellAttrs(ShortFid(cell.fid), TRUE, << >>, << >>))
     ELSE getBsb(cell)[1] \o getBsb(cell)[2])
    \o << ShortFid(cell.fid) >>

BlockOf(cell) ==
    IF cell.isInterior
    THEN getBsb(CellAttrs(ShortFid(cell.fid), TRUE, << >>, << >>))[1]
    ELSE getBsb(cell)[1]

SubblockOf(cell) ==
    IF cell.isInterior
    THEN getBsb(CellAttrs(ShortFid(cell.fid), TRUE, << >>, << >>))[2]
    ELSE getBsb(cell)[2]

\* The cells are written in ascending order of bucket, then FormID, and
\* they are the cells of the container.
CellsAscending(s, cellBlocks) ==
    /\ Len(PositionsOf(s, IsCellToken)) = Len(cellBlocks)
    /\ {s[PositionsOf(s, IsCellToken)[n]].rec :
            n \in 1..Len(PositionsOf(s, IsCellToken))}
          = {cellBlocks[n].cell : n \in 1..Len(cellBlocks)}
    /\ \A n \in 1..(Len(PositionsOf(s, IsCellToken)) - 1) :
          ~LexLess(CellKey(s[PositionsOf(s, IsCellToken)[n + 1]].rec),
                   CellKey(s[PositionsOf(s, IsCellToken)[n]].rec))

\* One header per distinct key, right before the first cell of the key.
HeadersOncePerKey(s) ==
    /\ \A i \in 1..Len(s) :
          /\ IsBlockHeader(s[i]) =>
                /\ i + 2 <= Len(s)
                /\ IsSubblockHeader(s[i + 1])
                /\ IsCellToken(s[i + 2])
                /\ \A j \in 1..Len(s) :
                      (IsBlockHeader(s[j]) /\ j # i) => s[j].label # s[i].label
          /\ IsSubblockHeader(s[i]) =>
                /\ i + 1 <= Len(s)
                /\ IsCellToken(s[i + 1])
                /\ HeaderBefore(s, i, IsBlockHeader) # 0
                /\ \A j \in 1..Len(s) :
                      (/\ IsSubblockHeader(s[j])
                       /\ j # i
                       /\ s[j].label = s[i].label)
                      => HeaderBefore(s, j, IsBlockHeader)
                            # HeaderBefore(s, i, IsBlockHeader)
          /\ IsCellToken(s[i]) =>
                /\ HeaderBefore(s, i, IsBlockHeader) # 0
                /\ HeaderBefore(s, i, IsSubblockHeader)
                      > HeaderBefore(s, i, IsBlockHeader)
                /\ s[HeaderBefore(s, i, IsBlockHeader)].label
                      = BlockOf(s[i].rec)
                /\ s[HeaderBefore(s, i, IsSubblockHeader)].label
                      = SubblockOf(s[i].rec)

\* Where the group of the header at i ends: before the next header of its
\* level or above, or at the end of the stream.
GroupEnd(s, i) ==
    IF \E j \in (i + 1)..Len(s) :
          IsBlockHeader(s[j]) \/ (IsSubblockHeader(s[i]) /\ IsSubblockHeader(s[j]))
    THEN (CHOOSE j \in (i + 1)..Len(s) :
            /\ IsBlockHeader(s[j]) \/ (IsSubblockHeader(s[i]) /\ IsSubblockHeader(s[j]))
            /\ \A k \in (i + 1)..(j - 1) :
                  ~(IsBlockHeader(s[k])
                    \/ (IsSubblockHeader(s[i]) /\ IsSubblockHeader(s[k])))) - 1
    ELSE Len(s)

\* The size in a block or sub-block header is the size of its group.
HeaderSizes(s) ==
    \A i \in 1..Len(s) :
        (IsBlockHeader(s[i]) \/ IsSubblockHeader(s[i]))
            => s[i].size = StreamLen(SubSeq(s, i, GroupEnd(s, i)))

\* C22: the dump of a changed cell container writes the cell blocks in
\* ascending order of bucket and, within a bucket, of cell FormID, one block
\* header per block and one sub-block header per (block, sub-block), each
\* right before the first cell of its key; a sub-block header's size is the
\* header plus its cell blocks, a block header's the header plus its
\* sub-block groups, and the container's total the header plus all block
\* groups.
C22_BucketedDump ==
    (/\ op.name = "dump"
     /\ op.before.kind \in {"MobICells", "MobWorld"}
     /\ op.before.changed
     /\ op.before.cellBlocks # << >>
     /\ err = "")
    => /\ CellsAscending(BucketedPart(out.dump), op.before.cellBlocks)
       /\ HeadersOncePerKey(BucketedPart(out.dump))
       /\ HeaderSizes(BucketedPart(out.dump))
       /\ op.before.kind = "MobICells" =>
             /\ out.dump[1].t = "GRUP"
             /\ BucketedPart(out.dump) = Tail(out.dump)
             /\ out.dump[1].size = rec_header_size + StreamLen(Tail(out.dump))

\* A dump of three interior cells given out of order: two blocks, the first
\* with two sub-blocks.
C22_Witness ==
    /\ op.name = "dump"
    /\ op.before.kind = "MobICells"
    /\ err = ""
    /\ Len(op.before.cellBlocks) = 3
    /\ op.before.cellBlocks[1].cell = ICellD
    /\ op.before.cellBlocks[2].cell = ICellC
    /\ op.before.cellBlocks[3].cell = ICellA
    /\ Len(PositionsOf(out.dump, IsBlockHeader)) = 2
    /\ Len(PositionsOf(out.dump, IsSubblockHeader)) = 3


\* The world block has a road, a world cell or bucketed cell blocks.
HasWorldChildren(w) ==
    w.road # None \/ w.worldCellBlock # None \/ w.cellBlocks # << >>

\* What follows the children-group header: road, world cell, bucketed cells.
WorldChildrenLayout(w, s) ==
    s = (IF w.road # None THEN << RecToken(w.road) >> ELSE << >>)
        \o (IF w.worldCellBlock # None
            THEN MobCell_dump(w.worldCellBlock) ELSE << >>)
        \o BucketedPart(s)

\* C23: dump of a world block writes the world record first; then, iff it
\* has a road, a world cell or bucketed cell blocks, a children-group header
\* whose size covers the header, road, world cell and bucketed cells,
\* followed by these in that order; a world block without children (one an
\* eager load made for a WRLD without children group included) writes the
\* world record alone; and dump returns the number of bytes written.
C23_WorldDumpLayout ==
    (op.name = "dump" /\ op.before.kind = "MobWorld") =>
        /\ err = ""
        /\ out.dump # << >>
        /\ out.dump[1] = RecToken(op.before.world)
        /\ HasWorldChildren(op.before) =>
              /\ Len(out.dump) >= 2
              /\ out.dump[2].t = "GRUP"
              /\ out.dump[2].groupType = 1
              /\ out.dump[2].size = StreamLen(Tail(out.dump))
              /\ WorldChildrenLayout(op.before, Tail(Tail(out.dump)))
        /\ ~HasWorldChildren(op.before) => Len(out.dump) = 1
        /\ out.ret = StreamLen(out.dump)


\* The record headers and the group headers among the tokens of a dump.
RecordHeaders(s) == Cardinality({i \in 1..Len(s) : s[i].t = "REC"})
GroupHeaders(s) == Cardinality({i \in 1..Len(s) : s[i].t = "GRUP"})

\* The world block as it is when held the other way: parsed for raw, raw
\* for parsed (a world block held raw by this program has no children).
HeldOtherwise(w) == [w EXCEPT !.changed = ~@]

\* C29: getNumRecords of a parsed cell block or cell container is, with
\* includeGroups, the number of record headers and group headers its dump
\* writes (a cell without children: its CELL record alone), and without
\* includeGroups the number of record headers; a world block counts the
\* same whether it is held raw or parsed.
C29_CountMatchesDump ==
    (op.name = "getNumRecords" /\ err = "") =>
        /\ op.before.kind \in {"MobCell", "MobICells"} =>
              out.getNumRecords
                 = RecordHeaders(Dump_dump(op.before).stream)
                   + (IF op.includeGroups
                      THEN GroupHeaders(Dump_dump(op.before).stream) ELSE 0)
        /\ (op.before.kind = "MobWorld" /\ ~HasWorldChildren(op.before)) =>
              out.getNumRecords
                 = MobWorld_getNumRecords(HeldOtherwise(op.before),
                                          op.includeGroups).val

==========
